---------------------------- MODULE Spec2Model ----------------------------
(***************************************************************************)
(* Model of the mainstay attestation service: the attestation state        *)
(* machine driving the attest client (chain I/O), the fee controller and   *)
(* the record store through one attestation cycle after the other.         *)
(*                                                                         *)
(* Encoding of values                                                      *)
(*   hash      a merkle tree: a leaf <<h>> (h a number) or a node <<l, r>> *)
(*             of two trees; the zero hash is the leaf <<0>>               *)
(*   txid      <<>> (zero txid), <<"genesis">> (txid0), or the content of  *)
(*             the transaction <<prev txid, output script, output value>>  *)
(*   pubkey    <<k, tweak>>: initial key k tweaked by the hash tweak       *)
(***************************************************************************)
EXTENDS Integers, Sequences, FiniteSets, TLC

(* ------------------------------ bounds -------------------------------- *)
\* highest client position that submits commitments
MaxPos == 1
\* number of commitments the clients submit; the k-th carries the hash <<k>>
MaxCommits == 2
\* number of blocks the parent chain mines
MaxBlocks == 2
\* fee configuration handed to NewAttestFees
CfgMinFee == 1
CfgMaxFee == 2
CfgFeeIncrement == 1
\* width of an int in bits
IntBits == 8
\* framing functions: longest short chunk and longest list of chunks
MaxChunkLen == 2
MaxChunks == 2
\* messages the peers publish in all
MaxMsgs == 3
\* main(): SIGINTs the process gets, commitments the clients store, blocks
\* the parent chain mines
MaxSigints == 2
MainCommits == 1
MainBlocks == 1
\* ReSubscribe calls of the service
MaxReSubs == 2
\* fee bumps of one transaction
MaxBumps == 2
\* transactions in the mempool of the parent node
MaxPool == 3
\* hashes of one commitment
MaxLeaves == 3
\* calls of UpdateLatestAttestation on one store
MaxUpdates == 2
\* highest position of a stored client commitment
MaxClientPos == 2
\* length of a byte string handed to UnserializeBytes
MaxBytes == 4
\* number of remote signers (peers) and signatures required (M of N)
NumPeers == 2
NumOfSigs == 2
\* amount held by the genesis output, serialized size of an unsigned tx
Amount0 == 20
BaseSize == 1

(* -------------------------- program constants ------------------------- *)
DefaultMinFee == 10
DefaultMaxFee == 100
DefaultFeeIncrement == 5
\* number of values of a byte
ByteSize == 256
\* 2^16: a uint32 is kept as two halves
HalfSize == 65536
\* attestation states
AStateError == "Error"
AStateInit == "Init"
AStateNextCommitment == "NextCommitment"
AStateNewAttestation == "NewAttestation"
AStateSignAttestation == "SignAttestation"
AStatePreSendStore == "PreSendStore"
AStateSendAttestation == "SendAttestation"
AStateAwaitConfirmation == "AwaitConfirmation"
AStateHandleUnconfirmed == "HandleUnconfirmed"
\* no error recorded
NoError == "none"

VARIABLES
    state,          \* state of the attestation state machine
    errorFrom,      \* the error recorded in Error: the state whose step failed
    running,        \* FALSE once the service has exited
    attestation,    \* in-flight models.Attestation of the state machine
    msgtx,          \* in-flight wire.MsgTx of the state machine
    fees,           \* AttestFees of the attest client
    dbAttestations, \* store: Attestation rows, in insertion order
    dbCommitments,  \* store: MerkleCommitment rows
    dbProofs,       \* store: MerkleProof rows
    dbInfo,         \* store: AttestationInfo rows
    dbClient,       \* store: latest client commitments, by position ASC
    mempool,        \* parent node: unconfirmed transactions, arrival order
    blocks,         \* parent node: blocks[i] is the tx mined in block i
    sent,           \* history: txids broadcast by sendAttestation
    commits,        \* history: number of commitments the clients submitted
    cycle,          \* history: number of Attestation rows when the cycle began
    main,           \* main(): its goroutines, the context and the wait-group
    call,           \* the last call of a function checked on its own
    signer          \* AttestSignerZmq: subscriber queues and the GetSigs call

smVars == <<state, errorFrom, running, attestation, msgtx>>
dbVars == <<dbAttestations, dbCommitments, dbProofs, dbInfo>>
chainVars == <<mempool, blocks>>
\* the variables of the attestation service and of its environment
serviceVars == <<state, errorFrom, running, attestation, msgtx, fees,
                 dbAttestations, dbCommitments, dbProofs, dbInfo, dbClient,
                 mempool, blocks, sent, commits, cycle>>
vars == <<state, errorFrom, running, attestation, msgtx, fees, dbAttestations,
          dbCommitments, dbProofs, dbInfo, dbClient, mempool, blocks, sent,
          commits, cycle, main, call, signer>>

Range(s) == {s[i] : i \in DOMAIN s}

(* ------------------------------ hashes -------------------------------- *)
ZeroHash == <<0>>
ZeroTxid == <<>>
txid0 == <<"genesis">>

\* one layer of the tree: adjacent nodes paired, the last duplicated when odd
MerkleLayer(l) ==
    LET p == IF Len(l) % 2 = 1 THEN Append(l, l[Len(l)]) ELSE l
    IN  [i \in 1..(Len(p) \div 2) |-> <<p[2 * i - 1], p[2 * i]>>]

RECURSIVE BuildMerkle(_)
BuildMerkle(l) == IF Len(l) = 1 THEN l[1] ELSE BuildMerkle(MerkleLayer(l))

\* Commitment.GetCommitmentHash: root of the tree over the positional hashes
GetCommitmentHash(commitment) == BuildMerkle(commitment)

\* the hash of the first leaf in place of the root
CommitmentHash_FirstLeaf(att) ==
    IF att.commitment = <<>> THEN ZeroHash ELSE att.commitment[1]

\* Attestation.CommitmentHash: zero hash when no commitment is set
CommitmentHash(att) ==
    IF att.commitment = <<>> THEN ZeroHash ELSE GetCommitmentHash(att.commitment)

\* AttestationInfo{}: the info block of an attestation not yet confirmed
NoInfo == [Txid |-> ZeroTxid, Blockhash |-> 0, Time |-> 0, Amount |-> 0]

NewAttestationDefault ==
    [txid |-> ZeroTxid, commitment |-> <<>>, confirmed |-> FALSE, info |-> NoInfo]

NewAttestation(txid, commitment) ==
    [txid |-> txid, commitment |-> commitment, confirmed |-> FALSE, info |-> NoInfo]

ErrorCommitmentNotDefined == "Commitment not defined"

\* Attestation.Commitment: the commitment and the error returned
Commitment(att) ==
    IF att.commitment = <<>>
    THEN [commitment |-> <<>>, err |-> ErrorCommitmentNotDefined]
    ELSE [commitment |-> att.commitment, err |-> NoError]

\* Attestation.SetCommitment
SetCommitment(att, commitment) == [att EXCEPT !.commitment = commitment]

(* ------------------------- keys and scripts --------------------------- *)
\* initial pubkeys of the multisig redeem script, untweaked
pubkeys == [i \in 1..NumPeers |-> <<i, ZeroHash>>]
script0 == [m |-> NumOfSigs, keys |-> pubkeys]

\* crypto.TweakPubKey: pub + tweak.G ; the zero tweak is a no-op
TweakPubKey(pub, tweak) == IF tweak = ZeroHash THEN pub ELSE <<pub[1], tweak>>

\* crypto.CreateMultisig: M and the pubkeys in the order given
CreateMultisig(pubs, m) == [m |-> m, keys |-> pubs]

\* GetNextAttestationAddr building the multisig of the untweaked pubkeys
GetNextAttestationAddr_NoTweak(hash) ==
    CreateMultisig([i \in DOMAIN pubkeys |-> pubkeys[i]], NumOfSigs)

GetNextAttestationAddr(hash) ==
    CreateMultisig([i \in DOMAIN pubkeys |-> TweakPubKey(pubkeys[i], hash)], NumOfSigs)

\* GetScriptFromHash returning the initial script for every hash
GetScriptFromHash_AlwaysInitial(hash) == script0

GetScriptFromHash(hash) ==
    IF hash # ZeroHash THEN GetNextAttestationAddr(hash) ELSE script0


(* --------------------------- fee controller --------------------------- *)
\* Go's int is a two's complement integer of a fixed width that wraps on
\* overflow; the width is scaled down from 64 to IntBits bits, wide enough
\* for the default limits
MaxInt == 2^(IntBits - 1) - 1
MinInt == -(2^(IntBits - 1))
WrapInt(x) == ((x - MinInt) % 2^IntBits) + MinInt

\* answers of the fee API to http.Get: the request fails, the body is not
\* JSON, the fee type is not in it, or the fee is there
ApiFailures == {"requestFailed", "undecodable", "noField"}
ApiResponse(kind, fee) == [kind |-> kind, fee |-> fee]

\* getFeeFromAPI: -1 on every failure
getFeeFromAPI(resp) ==
    IF resp.kind = "requestFailed" THEN -1
    ELSE IF resp.kind = "undecodable" THEN -1
    ELSE IF resp.kind = "noField" THEN -1
    ELSE resp.fee

getBestFee(resp) == getFeeFromAPI(resp)

\* ResetFee without the upper limit
ResetFee_NoUpperLimit(a, useMinimum, best) ==
    LET fee == IF useMinimum THEN a.minFee
               ELSE IF best < a.minFee THEN a.minFee
               ELSE best
    IN  [a EXCEPT !.currentFee = fee]

\* AttestFees.ResetFee: best is the answer of getBestFee (-1 on any failure)
ResetFee(a, useMinimum, best) ==
    LET fee == IF useMinimum THEN a.minFee
               ELSE IF best < a.minFee THEN a.minFee
               ELSE IF best > a.maxFee THEN a.maxFee
               ELSE best
    IN  [a EXCEPT !.currentFee = fee]

\* NewAttestFees comparing the maximum with the configured minimum
NewAttestFees_ConfiguredMin(cfg, best) ==
    LET minFee == IF cfg.MinFee > 0 /\ cfg.MinFee < DefaultMaxFee
                  THEN cfg.MinFee ELSE DefaultMinFee
        maxFee == IF cfg.MaxFee > 0 /\ cfg.MaxFee > cfg.MinFee /\ cfg.MaxFee < DefaultMaxFee
                  THEN cfg.MaxFee ELSE DefaultMaxFee
        feeIncrement == IF cfg.FeeIncrement > 0
                        THEN cfg.FeeIncrement ELSE DefaultFeeIncrement
    IN  ResetFee([minFee |-> minFee, maxFee |-> maxFee,
                  feeIncrement |-> feeIncrement, currentFee |-> 0], FALSE, best)

\* NewAttestFees: limits validated one by one, then the fee reset from the API
NewAttestFees(cfg, best) ==
    LET minFee == IF cfg.MinFee > 0 /\ cfg.MinFee < DefaultMaxFee
                  THEN cfg.MinFee ELSE DefaultMinFee
        maxFee == IF cfg.MaxFee > 0 /\ cfg.MaxFee > minFee /\ cfg.MaxFee < DefaultMaxFee
                  THEN cfg.MaxFee ELSE DefaultMaxFee
        feeIncrement == IF cfg.FeeIncrement > 0
                        THEN cfg.FeeIncrement ELSE DefaultFeeIncrement
    IN  ResetFee([minFee |-> minFee, maxFee |-> maxFee,
                  feeIncrement |-> feeIncrement, currentFee |-> 0], FALSE, best)

GetFee(a) == a.currentFee

\* AttestFees.BumpFee: add the increment, never above maxFee
BumpFee(a) ==
    LET bumped == WrapInt(a.currentFee + a.feeIncrement)
    IN  [a EXCEPT !.currentFee = IF bumped > a.maxFee THEN a.maxFee ELSE bumped]

\* answers of the fee API: -1 (request failed) up to above the maximum
OracleFees == -1 .. (CfgMaxFee + 1)
FeesConfig ==
    [MinFee |-> CfgMinFee, MaxFee |-> CfgMaxFee, FeeIncrement |-> CfgFeeIncrement]

(* ---------------------------- parent node ----------------------------- *)
TxPrev(t) == t[1]
TxScript(t) == IF t = txid0 THEN script0 ELSE t[2]
TxValue(t) == IF t = txid0 THEN Amount0 ELSE t[3]

\* wallet transactions that are not part of the attestation subchain: a
\* confirmed payment to the initial multisig address, an unconfirmed payment
\* to another address
ForeignScript == [m |-> 1, keys |-> <<<<0, ZeroHash>>>>]
ForeignTx == <<<<"unknown">>, script0, Amount0>>
ForeignUnconf == <<<<"other">>, ForeignScript, Amount0>>

Confirmed(t) == t \in {txid0, ForeignTx} \cup Range(blocks)
Known(t) == Confirmed(t) \/ t \in Range(mempool)
Spent(t) == \E u \in Range(mempool) \cup Range(blocks) : TxPrev(u) = t
Unspent(t) == ~Spent(t)

\* rpc ListUnspent: confirmed outputs no confirmed or mempool tx spends
ListUnspent ==
    LET all == <<ForeignTx, txid0>> \o blocks
    IN  [i \in DOMAIN SelectSeq(all, Unspent) |->
            [TxID |-> SelectSeq(all, Unspent)[i], Vout |-> 0,
             Amount |-> TxValue(SelectSeq(all, Unspent)[i])]]

\* rpc GetRawMempool
GetRawMempool == mempool

\* rpc GetRawTransaction failing for a set of transactions: for none, or for
\* all of them while the node is unreachable
KnownTxs == {txid0, ForeignTx} \cup Range(blocks) \cup Range(mempool)
NodeDown == {{}, KnownTxs}

\* block (hash and time) holding a confirmed transaction
BlockOf(t) == CHOOSE i \in DOMAIN blocks : blocks[i] = t

(* ---------------------------- attest client --------------------------- *)
NoScript == [sigs |-> <<>>, redeem |-> [m |-> 0, keys |-> <<>>]]
\* a uint32 is kept as its two 16-bit halves <<high, low>>
NoTx == [prev |-> ZeroTxid, vout |-> 0, sequence |-> <<0, 0>>,
         addr |-> [m |-> 0, keys |-> <<>>], value |-> 0, script |-> NoScript]

SerializeSize(tx) == BaseSize + Len(tx.script.sigs)
TxHash(tx) == <<tx.prev, tx.addr, tx.value>>

\* verifyTxOnSubchain that takes every transaction the node knows for a
\* transaction of the subchain
RECURSIVE verifyTxOnSubchain_NoWalk(_, _)
verifyTxOnSubchain_NoWalk(txid, rawErr) ==
    IF txid = txid0 THEN TRUE
    ELSE IF txid \in rawErr \/ ~Known(txid) THEN FALSE
    ELSE TRUE

\* verifyTxOnSubchain: walk the first input's prev-txid back to genesis;
\* rawErr: the transactions for which GetRawTransaction returns an error
\* (the node is unreachable) during this walk; a transaction the node does
\* not know is an error as well
RECURSIVE verifyTxOnSubchain(_, _)
verifyTxOnSubchain(txid, rawErr) ==
    IF txid = txid0 THEN TRUE
    ELSE IF txid \in rawErr \/ ~Known(txid) THEN FALSE
    ELSE verifyTxOnSubchain(TxPrev(txid), rawErr)

\* the GetRawTransaction calls of the walk of verifyTxOnSubchain, in order
RECURSIVE FetchesOfWalk(_, _)
FetchesOfWalk(txid, rawErr) ==
    IF txid = txid0 THEN <<>>
    ELSE IF txid \in rawErr \/ ~Known(txid) THEN <<txid>>
    ELSE <<txid>> \o FetchesOfWalk(TxPrev(txid), rawErr)

\* the loop over the list taking the last element that verifyTxOnSubchain
\* accepts
FirstOnSubchain_LastHit(l, rawErr) ==
    LET hits == {i \in DOMAIN l : verifyTxOnSubchain(l[i], rawErr)}
    IN  IF hits = {} THEN 0 ELSE CHOOSE i \in hits : \A j \in hits : i >= j

\* first element of the list l that verifyTxOnSubchain accepts, 0 if none
FirstOnSubchain(l, rawErr) ==
    LET hits == {i \in DOMAIN l : verifyTxOnSubchain(l[i], rawErr)}
    IN  IF hits = {} THEN 0 ELSE CHOOSE i \in hits : \A j \in hits : i <= j

NoUnspent == [TxID |-> ZeroTxid, Vout |-> 0, Amount |-> 0]

\* findLastUnspent scanning the confirmed outputs that no confirmed tx spends:
\* an output the mempool already spends still counts as unspent
findLastUnspent_IgnoresMempool(listOk, rawErr) ==
    LET all == <<ForeignTx, txid0>> \o blocks
        free == SelectSeq(all, LAMBDA t : \A u \in Range(blocks) : TxPrev(u) # t)
        unspent == [k \in DOMAIN free |->
                       [TxID |-> free[k], Vout |-> 0, Amount |-> TxValue(free[k])]]
        i == FirstOnSubchain(free, rawErr)
    IN  IF ~listOk THEN [found |-> FALSE, vout |-> NoUnspent, err |-> TRUE]
        ELSE IF i # 0 THEN [found |-> TRUE, vout |-> unspent[i], err |-> FALSE]
        ELSE [found |-> FALSE, vout |-> NoUnspent, err |-> FALSE]

\* findLastUnspent: (found, unspent, error)
findLastUnspent(listOk, rawErr) ==
    LET unspent == ListUnspent
        i == FirstOnSubchain([k \in DOMAIN unspent |-> unspent[k].TxID], rawErr)
    IN  IF ~listOk THEN [found |-> FALSE, vout |-> NoUnspent, err |-> TRUE]
        ELSE IF i # 0 THEN [found |-> TRUE, vout |-> unspent[i], err |-> FALSE]
        ELSE [found |-> FALSE, vout |-> NoUnspent, err |-> FALSE]

\* getUnconfirmedTx: (found, txid, error)
getUnconfirmedTx(poolOk, rawErr) ==
    LET pool == GetRawMempool
        i == FirstOnSubchain(pool, rawErr)
    IN  IF ~poolOk THEN [found |-> FALSE, txid |-> ZeroTxid, err |-> TRUE]
        ELSE IF i # 0 THEN [found |-> TRUE, txid |-> pool[i], err |-> FALSE]
        ELSE [found |-> FALSE, txid |-> ZeroTxid, err |-> FALSE]

\* math.Pow(2, float64(32)), a float64 that holds 2^32 exactly: the halves
\* <<1, 0, 0>> of the integer it stands for
TwoToThe32 == <<1, 0, 0>>

\* uint32(x) of a float64 x >= 0 with an integer value: the value when it
\* fits; when it does not the result depends on the implementation, which
\* either keeps the low 32 bits or saturates
FloatConversions == {"low bits", "saturate"}
Uint32OfFloat(x, conv) ==
    IF x[1] = 0 \/ conv = "low bits" THEN <<x[2], x[3]>>
    ELSE <<HalfSize - 1, HalfSize - 1>>

\* x - n in uint32 arithmetic, for 0 <= n < HalfSize
SubUint32(x, n) ==
    IF x[2] >= n THEN <<x[1], x[2] - n>>
    ELSE <<(x[1] + HalfSize - 1) % HalfSize, x[2] + HalfSize - n>>

\* createAttestation: one input (the unspent) with the replace-by-fee
\* sequence, one output (paytoaddr) of the full amount less feePerByte * size
createAttestation(paytoaddr, txunspent, a, conv) ==
    LET tx == [prev |-> txunspent.TxID, vout |-> txunspent.Vout,
               sequence |-> SubUint32(Uint32OfFloat(TwoToThe32, conv), 3),
               addr |-> paytoaddr, value |-> txunspent.Amount,
               script |-> NoScript]
        fee == WrapInt(GetFee(a) * SerializeSize(tx))
    IN  [tx EXCEPT !.value = WrapInt(@ - fee)]

\* bumpAttestationFees that leaves the scriptSig in place
bumpAttestationFees_KeepsSigs(tx, a) ==
    LET bumped == BumpFee(a)
        feePerByteIncrement == WrapInt(GetFee(bumped) - GetFee(a))
        feeIncrement == WrapInt(feePerByteIncrement * SerializeSize(tx))
    IN  [tx |-> [tx EXCEPT !.value = WrapInt(@ - feeIncrement)],
         fees |-> bumped, err |-> FALSE]

\* bumpAttestationFees: (tx without sigs and with the fee raised, fees, nil)
bumpAttestationFees(tx, a) ==
    LET cleared == [tx EXCEPT !.script = NoScript]
        bumped == BumpFee(a)
        feePerByteIncrement == WrapInt(GetFee(bumped) - GetFee(a))
        feeIncrement == WrapInt(feePerByteIncrement * SerializeSize(cleared))
    IN  [tx |-> [cleared EXCEPT !.value = WrapInt(@ - feeIncrement)],
         fees |-> bumped, err |-> FALSE]

\* the wallet key of signer k, crypto.TweakPrivKey, and the pubkey of a key
NoKey == <<>>
PrivKey(k) == <<"priv", k, ZeroHash>>
TweakPrivKey(key, tweak) == IF tweak = ZeroHash THEN key ELSE <<"priv", key[2], tweak>>
PubKeyOf(key) == <<key[2], key[3]>>

\* NewAttestClient: a client that only builds transactions, or the client of
\* signer k with its wallet key
NewAttestClient(isSigner, k) ==
    [WalletPriv |-> IF isSigner THEN PrivKey(k) ELSE NoKey]

GetKeyFromHash(w, hash) ==
    IF hash # ZeroHash THEN TweakPrivKey(w.WalletPriv, hash) ELSE w.WalletPriv

\* the signature of a key, and the zero value of a signature
SigOfKey(key) == 10 + key[2]
NilSig == 0

\* what the calls of signAttestation to the node and to the allocator give:
\* whether GetRawTransaction and SignRawTransaction3 succeed, and the spare
\* capacity of the slice of combined signatures
NoRpc == [rawOk |-> TRUE, signOk |-> TRUE, spare |-> 0]

\* SignTransaction: (tx signed with the key of hash, redeem script, error).
\* The node signs the input when the key is one of the redeem script and the
\* script is the one the spent output pays to
SignTransaction(w, hash, tx, env) ==
    LET key == GetKeyFromHash(w, hash)
        redeemScript == GetScriptFromHash(hash)
        signs == /\ PubKeyOf(key) \in Range(redeemScript.keys)
                 /\ redeemScript = TxScript(tx.prev)
    IN  IF ~env.rawOk \/ ~Known(tx.prev) \/ ~env.signOk
        THEN [tx |-> NoTx, script |-> NoScript.redeem, err |-> TRUE]
        ELSE [tx |-> IF signs
                     THEN [tx EXCEPT !.script = [sigs |-> <<SigOfKey(key)>>,
                                                 redeem |-> redeemScript]]
                     ELSE tx,
              script |-> redeemScript, err |-> FALSE]

\* combinedSigs[:numOfSigs]: the first numOfSigs elements; past the length
\* the slice expression takes the elements of the spare capacity, and panics
\* past the capacity
SliceTo(combinedSigs, numOfSigs, spare) ==
    IF numOfSigs <= Len(combinedSigs)
    THEN [sigs |-> SubSeq(combinedSigs, 1, numOfSigs), panic |-> FALSE]
    ELSE IF numOfSigs <= Len(combinedSigs) + spare
    THEN [sigs |-> combinedSigs \o [i \in 1..(numOfSigs - Len(combinedSigs)) |-> NilSig],
          panic |-> FALSE]
    ELSE [sigs |-> <<>>, panic |-> TRUE]

\* signAttestation: (tx, error), or a panic. A signer client signs first;
\* with a signature of its own in the scriptSig the received sigs are
\* appended to it, else the received sigs are used alone, and the first
\* numOfSigs make the final scriptSig
signAttestation(w, tx, sigs, hash, env) ==
    LET st == IF w.WalletPriv # NoKey THEN SignTransaction(w, hash, tx, env)
              ELSE [tx |-> tx, script |-> GetScriptFromHash(hash), err |-> FALSE]
        signedMsgTx == st.tx
        redeemScript == st.script
        mySigs == signedMsgTx.script.sigs
        script == signedMsgTx.script.redeem
        taken == SliceTo(mySigs \o sigs, NumOfSigs, env.spare)
    IN  IF st.err THEN [tx |-> NoTx, err |-> TRUE, panic |-> FALSE]
        ELSE IF redeemScript = NoScript.redeem
        THEN [tx |-> signedMsgTx, err |-> FALSE, panic |-> FALSE]
        ELSE IF Len(mySigs) > 0 /\ script # NoScript.redeem /\ script = redeemScript
        THEN IF taken.panic
             THEN [tx |-> NoTx, err |-> FALSE, panic |-> TRUE]
             ELSE [tx |-> [signedMsgTx EXCEPT !.script =
                              [sigs |-> taken.sigs, redeem |-> script]],
                   err |-> FALSE, panic |-> FALSE]
        ELSE IF Len(sigs) >= NumOfSigs
        THEN [tx |-> [signedMsgTx EXCEPT !.script =
                         [sigs |-> SubSeq(sigs, 1, NumOfSigs), redeem |-> redeemScript]],
              err |-> FALSE, panic |-> FALSE]
        ELSE [tx |-> signedMsgTx, err |-> FALSE, panic |-> FALSE]

\* rpc SendRawTransaction: the node takes a tx that is new, spends a confirmed
\* output no confirmed tx spends, carries M signatures for that output's
\* script, and pays more fee than the mempool tx it replaces (RBF)
Conflicts(tx) == {u \in Range(mempool) : TxPrev(u) = tx.prev}
NodeAccepts(tx) ==
    /\ ~Known(TxHash(tx))
    /\ Confirmed(tx.prev)
    /\ \A u \in Range(blocks) : TxPrev(u) # tx.prev
    /\ tx.script.redeem = TxScript(tx.prev)
    /\ Len(tx.script.sigs) >= TxScript(tx.prev).m
    /\ \A u \in Conflicts(tx) : TxValue(u) > tx.value

MempoolAfterSend(tx) ==
    LET keep == {i \in DOMAIN mempool : mempool[i] \notin Conflicts(tx)}
        kept == [i \in 1..Cardinality(keep) |->
                    mempool[CHOOSE k \in keep :
                        Cardinality({j \in keep : j < k}) = i - 1]]
    IN  Append(kept, TxHash(tx))

\* sendAttestation: (txid, error); rpcOk: whether the node is reachable
sendAttestation(tx, rpcOk) ==
    IF rpcOk /\ NodeAccepts(tx)
    THEN [txid |-> TxHash(tx), err |-> FALSE]
    ELSE [txid |-> ZeroTxid, err |-> TRUE]


(* ----------------------------- record store --------------------------- *)
\* Db.saveAttestation: upsert of the row keyed by txid
saveAttestation(rows, att) ==
    LET row == [txid |-> att.txid, root |-> CommitmentHash(att),
                confirmed |-> att.confirmed]
        at == {i \in DOMAIN rows : rows[i].txid = att.txid}
    IN  IF at = {} THEN Append(rows, row)
        ELSE [i \in DOMAIN rows |-> IF i \in at THEN row ELSE rows[i]]

\* Commitment.GetMerkleCommitments / GetMerkleProofs: one row per leaf
GetMerkleCommitments(commitment) ==
    {<<GetCommitmentHash(commitment), i - 1, commitment[i]>> : i \in DOMAIN commitment}
GetMerkleProofs(commitment) ==
    {<<GetCommitmentHash(commitment), i - 1>> : i \in DOMAIN commitment}

\* Db.getLatestAttestationMerkleRoot: root of the newest row with the given
\* confirmed flag; found is FALSE for the empty answer ""
getLatestAttestationMerkleRoot(confirmed) ==
    LET at == {i \in DOMAIN dbAttestations : dbAttestations[i].confirmed = confirmed}
    IN  IF at = {} THEN [found |-> FALSE, root |-> ZeroHash]
        ELSE [found |-> TRUE,
              root |-> dbAttestations[CHOOSE i \in at : \A j \in at : j <= i].root]

\* UpdateLatestAttestation with the error of the merkle commitment and proof
\* writes dropped: a failed write is reported as success
UpdateLatestAttestation_DropsWriteError(att, failAt) ==
    LET db0 == [atts |-> dbAttestations, comms |-> dbCommitments,
                proofs |-> dbProofs, info |-> dbInfo, err |-> FALSE]
        db1 == [db0 EXCEPT !.atts = saveAttestation(dbAttestations, att)]
        db2 == [db1 EXCEPT !.comms = @ \cup GetMerkleCommitments(att.commitment)]
        db3 == [db2 EXCEPT !.proofs = @ \cup GetMerkleProofs(att.commitment)]
        db4 == [db3 EXCEPT !.info = @ \cup {att.info}]
    IN  IF failAt = 1 THEN [db0 EXCEPT !.err = TRUE]
        ELSE IF att.commitment = <<>> THEN [db1 EXCEPT !.err = TRUE]
        ELSE IF failAt = 2 THEN db1
        ELSE IF failAt = 3 THEN db2
        ELSE IF att.confirmed
             THEN (IF failAt = 4 THEN [db3 EXCEPT !.err = TRUE] ELSE db4)
             ELSE db3

\* UpdateLatestAttestation without the test of Confirmed before the info write
UpdateLatestAttestation_AlwaysSavesInfo(att, failAt) ==
    LET db0 == [atts |-> dbAttestations, comms |-> dbCommitments,
                proofs |-> dbProofs, info |-> dbInfo, err |-> FALSE]
        db1 == [db0 EXCEPT !.atts = saveAttestation(dbAttestations, att)]
        db2 == [db1 EXCEPT !.comms = @ \cup GetMerkleCommitments(att.commitment)]
        db3 == [db2 EXCEPT !.proofs = @ \cup GetMerkleProofs(att.commitment)]
        db4 == [db3 EXCEPT !.info = @ \cup {att.info}]
    IN  IF failAt = 1 THEN [db0 EXCEPT !.err = TRUE]
        ELSE IF att.commitment = <<>> THEN [db1 EXCEPT !.err = TRUE]
        ELSE IF failAt = 2 THEN [db1 EXCEPT !.err = TRUE]
        ELSE IF failAt = 3 THEN [db2 EXCEPT !.err = TRUE]
        ELSE IF failAt = 4 THEN [db3 EXCEPT !.err = TRUE] ELSE db4

\* UpdateLatestAttestation without the info write of a confirmed attestation
UpdateLatestAttestation_NeverSavesInfo(att, failAt) ==
    LET db0 == [atts |-> dbAttestations, comms |-> dbCommitments,
                proofs |-> dbProofs, info |-> dbInfo, err |-> FALSE]
        db1 == [db0 EXCEPT !.atts = saveAttestation(dbAttestations, att)]
        db2 == [db1 EXCEPT !.comms = @ \cup GetMerkleCommitments(att.commitment)]
        db3 == [db2 EXCEPT !.proofs = @ \cup GetMerkleProofs(att.commitment)]
    IN  IF failAt = 1 THEN [db0 EXCEPT !.err = TRUE]
        ELSE IF att.commitment = <<>> THEN [db1 EXCEPT !.err = TRUE]
        ELSE IF failAt = 2 THEN [db1 EXCEPT !.err = TRUE]
        ELSE IF failAt = 3 THEN [db2 EXCEPT !.err = TRUE]
        ELSE db3

\* Server.UpdateLatestAttestation: the writes in order, stopping at the first
\* error; failAt names the write that fails (0: none)
UpdateLatestAttestation(att, failAt) ==
    LET db0 == [atts |-> dbAttestations, comms |-> dbCommitments,
                proofs |-> dbProofs, info |-> dbInfo, err |-> FALSE]
        db1 == [db0 EXCEPT !.atts = saveAttestation(dbAttestations, att)]
        db2 == [db1 EXCEPT !.comms = @ \cup GetMerkleCommitments(att.commitment)]
        db3 == [db2 EXCEPT !.proofs = @ \cup GetMerkleProofs(att.commitment)]
        db4 == [db3 EXCEPT !.info = @ \cup {att.info}]
    IN  IF failAt = 1 THEN [db0 EXCEPT !.err = TRUE]
        ELSE IF att.commitment = <<>> THEN [db1 EXCEPT !.err = TRUE]
        ELSE IF failAt = 2 THEN [db1 EXCEPT !.err = TRUE]
        ELSE IF failAt = 3 THEN [db2 EXCEPT !.err = TRUE]
        ELSE IF att.confirmed
             THEN (IF failAt = 4 THEN [db3 EXCEPT !.err = TRUE] ELSE db4)
             ELSE db3

DbError == "db error"

\* Server.UpdateLatestAttestation: the calls of the Db it makes, in order, and
\* the error it returns
UpdateLatestAttestationCalls(att, failAt) ==
    LET w1 == <<"saveAttestation">>
        w2 == Append(w1, "saveMerkleCommitments")
        w3 == Append(w2, "saveMerkleProofs")
        w4 == Append(w3, "saveAttestationInfo")
    IN  IF failAt = 1 THEN [writes |-> w1, error |-> DbError]
        ELSE IF Commitment(att).err # NoError
        THEN [writes |-> w1, error |-> Commitment(att).err]
        ELSE IF failAt = 2 THEN [writes |-> w2, error |-> DbError]
        ELSE IF failAt = 3 THEN [writes |-> w3, error |-> DbError]
        ELSE IF att.confirmed
             THEN [writes |-> w4, error |-> IF failAt = 4 THEN DbError ELSE NoError]
             ELSE [writes |-> w3, error |-> NoError]

\* GetLatestAttestationCommitmentHash with the confirmed parameter defaulting
\* to false
GetLatestAttestationCommitmentHash_DefaultUnconfirmed(confirmed) ==
    LET confirmedParam == IF Len(confirmed) > 0 THEN confirmed[1] ELSE FALSE
        merkleRoot == getLatestAttestationMerkleRoot(confirmedParam)
    IN  IF ~merkleRoot.found THEN ZeroHash ELSE merkleRoot.root

\* Server.GetLatestAttestationCommitmentHash(confirmed ...bool)
GetLatestAttestationCommitmentHash(confirmed) ==
    LET confirmedParam == IF Len(confirmed) > 0 THEN confirmed[1] ELSE TRUE
        merkleRoot == getLatestAttestationMerkleRoot(confirmedParam)
    IN  IF ~merkleRoot.found THEN ZeroHash ELSE merkleRoot.root

ErrorCommitmentListEmpty == "List of commitments is empty"

\* models.NewCommitment: the commitment over the hashes, an error for none
NewCommitment(commitments) ==
    IF Len(commitments) = 0
    THEN [commitment |-> <<>>, err |-> TRUE, error |-> ErrorCommitmentListEmpty]
    ELSE [commitment |-> commitments, err |-> FALSE, error |-> NoError]

\* GetClientCommitment sizing the hash list by the number of stored rows
GetClientCommitment_Packed ==
    NewCommitment([p \in DOMAIN dbClient |-> dbClient[p].Commitment])

\* Server.GetClientCommitment: hashes by position up to the highest stored
\* position, zero hash where no client committed; error on the empty list
GetClientCommitment ==
    LET latestCommitments == dbClient
        n == IF Len(latestCommitments) > 0
             THEN latestCommitments[Len(latestCommitments)].ClientPosition + 1 ELSE 0
        commitmentHashes ==
            [p \in 1..n |->
                IF \E i \in DOMAIN latestCommitments :
                       latestCommitments[i].ClientPosition = p - 1
                THEN latestCommitments[CHOOSE i \in DOMAIN latestCommitments :
                         latestCommitments[i].ClientPosition = p - 1].Commitment
                ELSE ZeroHash]
    IN  NewCommitment(commitmentHashes)

\* Server.GetAttestationCommitment(txid, confirmed ...bool): the commitment
\* rebuilt from the merkle commitments stored for the attestation txid
GetAttestationCommitment(txid, confirmed) ==
    LET confirmedParam == IF Len(confirmed) > 0 THEN confirmed[1] ELSE TRUE
        roots == {dbAttestations[i].root :
                     i \in {j \in DOMAIN dbAttestations : dbAttestations[j].txid = txid}}
        rows == {r \in dbCommitments : r[1] \in roots}
        hashes == [p \in 1..Cardinality(rows) |->
                      (CHOOSE r \in rows : r[2] = p - 1)[3]]
    IN  IF rows = {} /\ confirmedParam THEN [commitment |-> <<>>, err |-> FALSE]
        ELSE [commitment |-> hashes, err |-> (rows = {})]


(* ----------------------- attestation state machine -------------------- *)
\* no main(), no call and no signer transport: the parts left out of a
\* specification stay at these values
NoMain == [pcMain |-> "none"]
NoCall == [op |-> "none"]
NoSigner == [pc |-> "none"]

\* the service, the store and the parent node after construction
ServiceInit ==
    /\ state = AStateInit
    /\ errorFrom = NoError
    /\ running = TRUE
    /\ attestation = NewAttestationDefault
    /\ msgtx = NoTx
    /\ dbAttestations = <<>>
    /\ dbCommitments = {}
    /\ dbProofs = {}
    /\ dbInfo = {}
    /\ dbClient = <<>>
    /\ mempool = <<ForeignUnconf>>
    /\ blocks = <<>>
    /\ sent = {}
    /\ commits = 0
    /\ cycle = 0

Init ==
    /\ ServiceInit
    /\ fees \in {NewAttestFees(FeesConfig, best) : best \in OracleFees}
    /\ main = NoMain
    /\ call = NoCall
    /\ signer = NoSigner

\* a failed step: the machine moves to Error, records where it failed and
\* discards the pending attestation and transaction
Fail(from) ==
    /\ state' = AStateError
    /\ errorFrom' = from
    /\ attestation' = NewAttestationDefault
    /\ msgtx' = NoTx

\* the mempool transaction txid as the node returns it, a transaction that
\* createAttestation built
MempoolTx(txid, conv) ==
    [prev |-> TxPrev(txid), vout |-> 0,
     sequence |-> SubUint32(Uint32OfFloat(TwoToThe32, conv), 3),
     addr |-> TxScript(txid), value |-> TxValue(txid),
     script |-> [sigs |-> [i \in 1..TxScript(TxPrev(txid)).m |-> i],
                 redeem |-> TxScript(TxPrev(txid))]]

\* Init: the subchain tip unspent, else an unconfirmed tx of the subchain in
\* the mempool (recovery), else the service is uninitialised and exits
doStateInit ==
    /\ running /\ state = AStateInit
    /\ \E listOk \in BOOLEAN, poolOk \in BOOLEAN, rawErr \in NodeDown,
          conv \in FloatConversions :
        LET u == findLastUnspent(listOk, rawErr)
            m == getUnconfirmedTx(poolOk, rawErr)
            c == GetAttestationCommitment(m.txid, <<FALSE>>)
        IN  IF u.err
            THEN Fail(AStateInit) /\ UNCHANGED running
            ELSE IF u.found
            THEN /\ state' = AStateNextCommitment
                 /\ attestation' = NewAttestationDefault
                 /\ msgtx' = NoTx
                 /\ UNCHANGED <<errorFrom, running>>
            ELSE IF m.err \/ (m.found /\ c.err)
            THEN Fail(AStateInit) /\ UNCHANGED running
            ELSE IF m.found
            THEN /\ state' = AStateNextCommitment
                 /\ attestation' = NewAttestation(m.txid, c.commitment)
                 /\ msgtx' = MempoolTx(m.txid, conv)
                 /\ UNCHANGED <<errorFrom, running>>
            ELSE /\ running' = FALSE
                 /\ UNCHANGED <<state, errorFrom, attestation, msgtx>>
    /\ UNCHANGED <<fees, dbVars, dbClient, chainVars, sent, commits, cycle>>

\* whether the machine holds an unconfirmed attestation found at Init
InRecovery == attestation.txid # ZeroTxid

\* NextCommitment: the latest client commitment, when there is one and it
\* differs from the commitment of the last confirmed attestation
doStateNextCommitment ==
    /\ running /\ state = AStateNextCommitment
    /\ IF InRecovery
       THEN /\ state' = AStateAwaitConfirmation
            /\ UNCHANGED <<errorFrom, attestation, msgtx, cycle>>
       ELSE \E dbOk \in BOOLEAN :
            LET c == GetClientCommitment
                latest == GetLatestAttestationCommitmentHash(<<>>)
            IN  IF ~dbOk
                THEN Fail(AStateNextCommitment) /\ UNCHANGED cycle
                ELSE /\ ~c.err
                     /\ GetCommitmentHash(c.commitment) # latest
                     /\ state' = AStateNewAttestation
                     /\ attestation' = NewAttestation(ZeroTxid, c.commitment)
                     /\ cycle' = Len(dbAttestations)
                     /\ UNCHANGED <<errorFrom, msgtx>>
    /\ UNCHANGED <<running, fees, dbVars, dbClient, chainVars, sent, commits>>

\* NewAttestation: address of the commitment, unsigned tx spending the
\* subchain tip at the current fee
doStateNewAttestation ==
    /\ running /\ state = AStateNewAttestation
    /\ \E listOk \in BOOLEAN, rawErr \in NodeDown, rpcOk \in BOOLEAN,
          conv \in FloatConversions :
        LET u == findLastUnspent(listOk, rawErr)
            paytoaddr == GetNextAttestationAddr(CommitmentHash(attestation))
        IN  IF u.err \/ ~u.found \/ ~rpcOk
            THEN Fail(AStateNewAttestation)
            ELSE /\ msgtx' = createAttestation(paytoaddr, u.vout, fees, conv)
                 /\ state' = AStateSignAttestation
                 /\ UNCHANGED <<errorFrom, attestation>>
    /\ UNCHANGED <<running, fees, dbVars, dbClient, chainVars, sent, commits, cycle>>

\* SignAttestation handing the signed tx straight to SendAttestation
doStateSignAttestation_SkipsStore ==
    /\ running /\ state = AStateSignAttestation
    /\ \E n \in 0..NumPeers, timeout \in BOOLEAN :
        LET hash == GetLatestAttestationCommitmentHash(<<>>)
            signed == signAttestation(NewAttestClient(FALSE, 0), msgtx,
                                      [i \in 1..n |-> i], hash, NoRpc).tx
        IN  IF signed.script # NoScript
            THEN /\ msgtx' = signed
                 /\ attestation' = [attestation EXCEPT !.txid = TxHash(signed)]
                 /\ state' = AStateSendAttestation
            ELSE /\ timeout
                 /\ state' = AStateHandleUnconfirmed
                 /\ UNCHANGED <<msgtx, attestation>>
    /\ UNCHANGED <<errorFrom, running, fees, dbVars, dbClient, chainVars, sent,
                   commits, cycle>>

\* SignAttestation: the sigs of the n peers that answered; with M of them
\* the tx is final, else poll again until the timeout
doStateSignAttestation ==
    /\ running /\ state = AStateSignAttestation
    /\ \E n \in 0..NumPeers, timeout \in BOOLEAN :
        LET hash == GetLatestAttestationCommitmentHash(<<>>)
            signed == signAttestation(NewAttestClient(FALSE, 0), msgtx,
                                      [i \in 1..n |-> i], hash, NoRpc).tx
        IN  IF signed.script # NoScript
            THEN /\ msgtx' = signed
                 /\ attestation' = [attestation EXCEPT !.txid = TxHash(signed)]
                 /\ state' = AStatePreSendStore
            ELSE /\ timeout
                 /\ state' = AStateHandleUnconfirmed
                 /\ UNCHANGED <<msgtx, attestation>>
    /\ UNCHANGED <<errorFrom, running, fees, dbVars, dbClient, chainVars, sent,
                   commits, cycle>>

\* PreSendStore: the unconfirmed attestation goes to the store
doStatePreSendStore ==
    /\ running /\ state = AStatePreSendStore
    /\ \E failAt \in 0..3 :
        LET db == UpdateLatestAttestation(attestation, failAt)
        IN  /\ dbAttestations' = db.atts
            /\ dbCommitments' = db.comms
            /\ dbProofs' = db.proofs
            /\ dbInfo' = db.info
            /\ IF db.err
               THEN Fail(AStatePreSendStore)
               ELSE /\ state' = AStateSendAttestation
                    /\ UNCHANGED <<errorFrom, attestation, msgtx>>
    /\ UNCHANGED <<running, fees, dbClient, chainVars, sent, commits, cycle>>

\* SendAttestation: broadcast
doStateSendAttestation ==
    /\ running /\ state = AStateSendAttestation
    /\ \E rpcOk \in BOOLEAN :
        LET r == sendAttestation(msgtx, rpcOk)
        IN  IF r.err
            THEN Fail(AStateSendAttestation) /\ UNCHANGED <<mempool, sent>>
            ELSE /\ mempool' = MempoolAfterSend(msgtx)
                 /\ sent' = sent \cup {r.txid}
                 /\ state' = AStateAwaitConfirmation
                 /\ UNCHANGED <<errorFrom, attestation, msgtx>>
    /\ UNCHANGED <<running, fees, dbVars, dbClient, blocks, commits, cycle>>

\* the attestation marked confirmed with the info of its block
ConfirmedAttestation(att) ==
    [att EXCEPT !.confirmed = TRUE,
                !.info = [Txid |-> att.txid, Blockhash |-> BlockOf(att.txid),
                          Time |-> BlockOf(att.txid), Amount |-> TxValue(att.txid)]]

\* AwaitConfirmation: once the node reports the tx in a block the attestation
\* is stored as confirmed and the pending state discarded; a store failure
\* here is fatal
doStateAwaitConfirmation ==
    /\ running /\ state = AStateAwaitConfirmation
    /\ \E rpcOk \in BOOLEAN, timeout \in BOOLEAN, failAt \in 0..4 :
        IF ~rpcOk
        THEN Fail(AStateAwaitConfirmation) /\ UNCHANGED <<running, dbVars>>
        ELSE IF Confirmed(attestation.txid)
        THEN LET db == UpdateLatestAttestation(ConfirmedAttestation(attestation), failAt)
             IN  /\ dbAttestations' = db.atts
                 /\ dbCommitments' = db.comms
                 /\ dbProofs' = db.proofs
                 /\ dbInfo' = db.info
                 /\ IF db.err
                    THEN Fail(AStateAwaitConfirmation) /\ running' = FALSE
                    ELSE /\ state' = AStateNextCommitment
                         /\ attestation' = NewAttestationDefault
                         /\ msgtx' = NoTx
                         /\ UNCHANGED <<errorFrom, running>>
        ELSE /\ timeout
             /\ state' = AStateHandleUnconfirmed
             /\ UNCHANGED <<errorFrom, running, attestation, msgtx, dbVars>>
    /\ UNCHANGED <<fees, dbClient, chainVars, sent, commits, cycle>>

\* HandleUnconfirmed: fee bump of the pending tx, then sign again
doStateHandleUnconfirmed ==
    /\ running /\ state = AStateHandleUnconfirmed
    /\ LET r == bumpAttestationFees(msgtx, fees)
       IN  /\ fees' = r.fees
           /\ IF r.err
              THEN Fail(AStateHandleUnconfirmed)
              ELSE /\ msgtx' = r.tx
                   /\ state' = AStateSignAttestation
                   /\ UNCHANGED <<errorFrom, attestation>>
    /\ UNCHANGED <<running, dbVars, dbClient, chainVars, sent, commits, cycle>>

\* Error: the cycle restarts at Init after the backoff
doStateError ==
    /\ running /\ state = AStateError
    /\ state' = AStateInit
    /\ errorFrom' = NoError
    /\ UNCHANGED <<running, attestation, msgtx, fees, dbVars, dbClient,
                   chainVars, sent, commits, cycle>>

(* ------------------------------ environment --------------------------- *)
\* the client at position pos stores its latest commitment, a fresh hash;
\* the clients sign up in the order of their positions
ClientCommit ==
    /\ commits < MaxCommits
    /\ commits' = commits + 1
    /\ \E pos \in {p \in 0..MaxPos : p <= Len(dbClient)}, h \in {commits + 1} :
         LET others == SelectSeq(dbClient, LAMBDA r : r.ClientPosition # pos)
             below == SelectSeq(others, LAMBDA r : r.ClientPosition < pos)
             above == SelectSeq(others, LAMBDA r : r.ClientPosition > pos)
         IN  /\ dbClient' = below \o <<[ClientPosition |-> pos, Commitment |-> <<h>>]>>
                                 \o above
             /\ dbClient' # dbClient
    /\ UNCHANGED <<smVars, fees, dbVars, chainVars, sent, cycle>>

\* the parent chain mines a mempool transaction whose input is confirmed
Mine ==
    /\ Len(blocks) < MaxBlocks
    /\ \E i \in DOMAIN mempool :
        /\ Confirmed(TxPrev(mempool[i]))
        /\ blocks' = Append(blocks, mempool[i])
        /\ mempool' = SelectSeq(mempool, LAMBDA u : TxPrev(u) # TxPrev(mempool[i]))
    /\ UNCHANGED <<smVars, fees, dbVars, dbClient, sent, commits, cycle>>

Next ==
    \/ doStateInit /\ UNCHANGED <<main, call, signer>>
    \/ doStateNextCommitment /\ UNCHANGED <<main, call, signer>>
    \/ doStateNewAttestation /\ UNCHANGED <<main, call, signer>>
    \/ doStateSignAttestation /\ UNCHANGED <<main, call, signer>>
    \/ doStatePreSendStore /\ UNCHANGED <<main, call, signer>>
    \/ doStateSendAttestation /\ UNCHANGED <<main, call, signer>>
    \/ doStateAwaitConfirmation /\ UNCHANGED <<main, call, signer>>
    \/ doStateHandleUnconfirmed /\ UNCHANGED <<main, call, signer>>
    \/ doStateError /\ UNCHANGED <<main, call, signer>>
    \/ ClientCommit /\ UNCHANGED <<main, call, signer>>
    \/ Mine /\ UNCHANGED <<main, call, signer>>

Spec == Init /\ [][Next]_vars

(* ------------------------------ properties ---------------------------- *)
\* the store holds the record of the attestation txid t: its row, and the
\* merkle commitments and merkle proofs of the row's commitment root
RecordStored(t) ==
    \E i \in DOMAIN dbAttestations :
        /\ dbAttestations[i].txid = t
        /\ LET c == GetAttestationCommitment(t, <<FALSE>>)
           IN  /\ ~c.err
               /\ GetCommitmentHash(c.commitment) = dbAttestations[i].root
               /\ \A p \in DOMAIN c.commitment :
                      <<dbAttestations[i].root, p - 1>> \in dbProofs

\* C1: persist-before-broadcast-before-confirm. Every transaction that has
\* been broadcast has its attestation record (row, merkle commitments, merkle
\* proofs) in the store, and every stored confirmed info belongs to a
\* transaction that has been broadcast. The broadcast step writes nothing to
\* the store and the store steps broadcast nothing, so no broadcast of T
\* precedes the write of T's record and no info write precedes T's broadcast.
C1_PersistBroadcastConfirmOrder ==
    /\ \A t \in sent : RecordStored(t)
    /\ \A info \in dbInfo : info.Txid \in sent

\* C1 witness: a broadcast transaction whose confirmed info has been stored
C1_Witness ==
    \E t \in sent : \E info \in dbInfo : info.Txid = t /\ RecordStored(t)
\* broadcast attestation transactions the mempool holds
InMempool == {t \in sent : t \in Range(mempool)}
\* broadcast attestation transactions that are unconfirmed
Unconfirmed == {t \in sent : ~Confirmed(t)}
\* unconfirmed ones that can still confirm: no confirmed tx spends their input
Live == {t \in Unconfirmed : \A u \in Range(blocks) : TxPrev(u) # TxPrev(t)}
\* the step of NewAttestation that creates a transaction
CreateStep == state = AStateNewAttestation /\ state' = AStateSignAttestation

\* C2 as stated: at most one attestation transaction is broadcast and not yet
\* confirmed. A fee bump broadcasts a replacement with a new txid while the
\* replaced transaction is unconfirmed, so two such transactions exist.
C2_AtMostOneUnconfirmed == Cardinality(Live) <= 1

\* C2 amended: the mempool holds at most one attestation transaction; the
\* broadcast transactions that can still confirm all spend the same output
\* (they are fee-bump replacements of one another, so at most one of them
\* confirms); and createAttestation builds a new transaction only when no
\* broadcast transaction can still confirm.
C2_OneInFlight ==
    /\ [](/\ Cardinality(InMempool) <= 1
          /\ \A t \in Live : \A u \in Live : TxPrev(t) = TxPrev(u))
    /\ [][CreateStep => Live = {}]_vars

\* C2 witness: a fee-bump replacement is in the mempool, the transaction it
\* replaced is unconfirmed
C2_Witness == Cardinality(Live) = 2 /\ Cardinality(InMempool) = 1

\* the transitions the state diagram lists
ListedTransitions ==
    {<<AStateInit, AStateNextCommitment>>,
     <<AStateNextCommitment, AStateNewAttestation>>,
     <<AStateNextCommitment, AStateAwaitConfirmation>>,
     <<AStateNewAttestation, AStateSignAttestation>>,
     <<AStateSignAttestation, AStatePreSendStore>>,
     <<AStatePreSendStore, AStateSendAttestation>>,
     <<AStateSendAttestation, AStateAwaitConfirmation>>,
     <<AStateAwaitConfirmation, AStateHandleUnconfirmed>>,
     <<AStateAwaitConfirmation, AStateNextCommitment>>,
     <<AStateHandleUnconfirmed, AStateSignAttestation>>}
     \cup {<<s, AStateError>> :
              s \in {AStateInit, AStateNextCommitment, AStateNewAttestation,
                     AStateSignAttestation, AStatePreSendStore,
                     AStateSendAttestation, AStateAwaitConfirmation,
                     AStateHandleUnconfirmed}}

C4_RecordLifecycle ==
    /\ [](/\ \A i \in DOMAIN dbAttestations :
                 dbAttestations[i].confirmed => dbAttestations[i].txid \in Range(blocks)
          /\ \A info \in dbInfo :
                 /\ \E i \in DOMAIN dbAttestations :
                        /\ dbAttestations[i].txid = info.Txid
                        /\ dbAttestations[i].confirmed
                 /\ \A other \in dbInfo : other.Txid = info.Txid => other = info)
    /\ [][/\ Len(dbAttestations') >= Len(dbAttestations)
          /\ dbInfo \subseteq dbInfo'
          /\ \A i \in DOMAIN dbAttestations' :
                IF i \in DOMAIN dbAttestations
                THEN /\ dbAttestations'[i].txid = dbAttestations[i].txid
                     /\ dbAttestations'[i].root = dbAttestations[i].root
                     /\ dbAttestations[i].confirmed => dbAttestations'[i].confirmed
                ELSE ~dbAttestations'[i].confirmed]_vars

\* C4 witness: a confirmed row with its info, and a row written after it
C4_Witness ==
    \E i \in DOMAIN dbAttestations :
        /\ dbAttestations[i].confirmed
        /\ \E info \in dbInfo : info.Txid = dbAttestations[i].txid
        /\ i < Len(dbAttestations)

\* the step that ends a successful cycle: the awaited tx is confirmed and stored
ConfirmStep == state = AStateAwaitConfirmation /\ state' = AStateNextCommitment

\* C5 as stated: when a cycle ends with the confirmation, the store holds
\* exactly one attestation row more than when the cycle began. A fee bump
\* changes the txid, and the row of the replaced txid stays in the store.
C5_ExactlyOneNewRow ==
    [][ConfirmStep => Len(dbAttestations') = cycle + 1]_vars

\* C5 amended: the step that ends a successful cycle turns exactly one row
\* confirmed, the row of the awaited txid, written before the broadcast; the
\* row carries the target commitment root of the cycle; the step stores the
\* info of that txid, with the hash and time of the block that holds it and
\* the amount of its output; and every row the cycle added carries the target
\* root (the rows of fee-bumped txids stay in the store, unconfirmed).
C5_SuccessfulCycle ==
    [][ConfirmStep =>
        LET t == attestation.txid
            target == CommitmentHash(attestation)
            turned == {i \in DOMAIN dbAttestations' :
                          /\ dbAttestations'[i].confirmed
                          /\ i \in DOMAIN dbAttestations => ~dbAttestations[i].confirmed}
        IN  /\ Cardinality(turned) = 1
            /\ Len(dbAttestations') = Len(dbAttestations)
            /\ \A i \in turned : /\ dbAttestations'[i].txid = t
                                 /\ dbAttestations'[i].root = target
            /\ \E info \in dbInfo' \ dbInfo :
                   /\ info.Txid = t
                   /\ info.Blockhash \in DOMAIN blocks
                   /\ blocks[info.Blockhash] = t
                   /\ info.Time = info.Blockhash
                   /\ info.Amount = t[3]
            /\ \A i \in (cycle + 1)..Len(dbAttestations') :
                   dbAttestations'[i].root = target]_vars

\* C5 witness: a cycle with a fee bump has ended: the newest row is confirmed
\* with its info stored, and the cycle added more than one row
C5_Witness ==
    /\ state = AStateNextCommitment
    /\ Len(dbAttestations) > cycle + 1
    /\ dbAttestations[Len(dbAttestations)].confirmed
    /\ \E info \in dbInfo : info.Txid = dbAttestations[Len(dbAttestations)].txid

\* txids of the confirmed Attestation rows, in the order the store holds them
ConfirmedTxids ==
    LET rows == SelectSeq(dbAttestations, LAMBDA r : r.confirmed)
    IN  [i \in DOMAIN rows |-> rows[i].txid]

\* l is a spend path from genesis: the first spends genesis, each next one
\* spends its predecessor
SpendPath(l) ==
    \A i \in DOMAIN l : l[i][1] = IF i = 1 THEN <<"genesis">> ELSE l[i - 1]

\* C6: the confirmed attestations form a gap-free spend path from genesis,
\* on the parent chain (the transactions in the blocks, in block order) and
\* in the store (the confirmed rows, in the order written, are that path
\* from genesis on, up to the last one stored).
C6_GapFreeSpendPath ==
    /\ SpendPath(blocks)
    /\ SpendPath(ConfirmedTxids)
    /\ \A i \in DOMAIN ConfirmedTxids : ConfirmedTxids[i] = blocks[i]

\* C6 witness: two confirmed attestations, the second spending the first
C6_Witness ==
    /\ Len(ConfirmedTxids) = 2
    /\ ConfirmedTxids[2][1] = ConfirmedTxids[1]

\* the entries of the wallet's unspent list that walk back to genesis
TipCandidates ==
    {i \in DOMAIN ListUnspent : verifyTxOnSubchain(ListUnspent[i].TxID, {})}

\* C7 as stated: at any time exactly one unspent of the wallet's list walks
\* back to genesis. While an attestation transaction sits in the mempool the
\* tip output is spent by it and the list holds no such unspent.
C7_ExactlyOneTipUnspent == Cardinality(TipCandidates) = 1

\* C7 amended: at most one unspent of the wallet's list walks back to
\* genesis, so findLastUnspent never has two candidates; there is exactly one
\* when the mempool holds no attestation transaction and none when it holds
\* one; the script of that unspent is the initial script for the genesis
\* output, else the M-of-N multisig of the initial pubkeys tweaked with the
\* commitment root stored for the transaction of the unspent.
C7_AtMostOneTipUnspent ==
    /\ Cardinality(TipCandidates) <= 1
    /\ Cardinality(TipCandidates) = 1 <=> InMempool = {}
    /\ \A i \in TipCandidates :
          LET t == ListUnspent[i].TxID
          IN  IF t = <<"genesis">>
              THEN TxScript(t) = [m |-> NumOfSigs,
                                  keys |-> [k \in 1..NumPeers |-> <<k, <<0>>>>]]
              ELSE \E j \in DOMAIN dbAttestations :
                      /\ dbAttestations[j].txid = t
                      /\ dbAttestations[j].root # <<0>>
                      /\ t[2] = [m |-> NumOfSigs,
                                 keys |-> [k \in 1..NumPeers |->
                                              <<k, dbAttestations[j].root>>]]

\* C7 witness: the second attestation transaction is in the mempool and the
\* wallet's list holds no unspent of the subchain
C7_Witness ==
    /\ InMempool # {}
    /\ TipCandidates = {}
    /\ blocks # <<>>

\* commitment root of the newest confirmed row, the zero hash without one
LastConfirmedRoot ==
    LET rows == SelectSeq(dbAttestations, LAMBDA r : r.confirmed)
    IN  IF rows = <<>> THEN <<0>> ELSE rows[Len(rows)].root

\* merkle root of the latest client commitments
ClientRoot == BuildMerkle(GetClientCommitment.commitment)

\* NextCommitment has the latest client commitment and it is the one the
\* last confirmed attestation carries
Idle ==
    /\ state = AStateNextCommitment
    /\ ~InRecovery
    /\ dbClient # <<>>
    /\ ClientRoot = LastConfirmedRoot

\* C8: NextCommitment starts a new attestation only when a client commitment
\* exists and its root differs from the root of the newest confirmed
\* attestation row (the zero hash when no row is confirmed); when the roots
\* are equal the step creates and broadcasts nothing: the machine stays in
\* NextCommitment (or goes to Error) with no transaction.
C8_SkipIdenticalCommitment ==
    /\ [][state = AStateNextCommitment /\ state' = AStateNewAttestation =>
            dbClient # <<>> /\ ClientRoot # LastConfirmedRoot]_vars
    /\ [][Idle /\ running =>
            /\ state' \in {AStateNextCommitment, AStateError}
            /\ msgtx' = NoTx
            /\ sent' = sent
            /\ mempool' = mempool \/ blocks' # blocks]_vars

\* C8 witness: after a confirmed attestation the clients committed nothing
\* new and the machine idles in NextCommitment
C8_Witness == Idle /\ LastConfirmedRoot # <<0>>

\* the mempool transactions that walk back to genesis
MempoolCandidates == {t \in Range(mempool) : verifyTxOnSubchain(t, {})}

\* the step Init takes (the environment leaves state and running alone)
InitStep == state = AStateInit /\ running /\ (state' # state \/ running' # running)

\* C9: the step of Init either fails into Error or decides by what exists:
\* with a tip unspent of the subchain the machine goes on to NextCommitment
\* with no pending attestation; with none but a mempool transaction of the
\* subchain it goes on holding that transaction (recovery), and from there
\* to AwaitConfirmation without creating a transaction; with neither it
\* exits, and after the exit nothing is broadcast.
\* The code reports an existing tip (or mempool transaction) as absent when
\* the node fails to answer during the subchain walk, and the machine exits.
C9_InitOutcome ==
    /\ [][InitStep =>
            \/ state' = AStateError /\ running'
            \/ IF TipCandidates # {}
               THEN state' = AStateNextCommitment /\ running' /\ ~InRecovery'
               ELSE IF MempoolCandidates # {}
               THEN /\ state' = AStateNextCommitment /\ running'
                    /\ attestation'.txid \in MempoolCandidates
               ELSE ~running']_vars
    /\ [][state = AStateNextCommitment /\ InRecovery /\ state' # state =>
            /\ state' \in {AStateAwaitConfirmation, AStateError}
            /\ msgtx' = msgtx \/ state' = AStateError]_vars
    /\ [][~running => sent' = sent /\ (mempool' = mempool \/ blocks' # blocks)]_vars

\* C10: with the fee at its maximum, HandleUnconfirmed does not hand the
\* transaction back to SignAttestation once more: the bump at the cap fails.
\* The code caps the fee silently and bumpAttestationFees returns no error, so
\* the loop HandleUnconfirmed, SignAttestation repeats at the maximum fee.
C10_NoRetryAtFeeCap ==
    [][state = AStateHandleUnconfirmed /\ fees.currentFee = fees.maxFee =>
          state' # AStateSignAttestation]_vars

(* ------------------ the fee controller on its own --------------------- *)
\* configured limits and API fees around the limits of NewAttestFees and
\* around the ends of int
FeeValues ==
    {-1, 0, 1, 2, DefaultMaxFee - 1, DefaultMaxFee, DefaultMaxFee + 1, MaxInt}
FeeConfigs ==
    [MinFee : FeeValues, MaxFee : FeeValues, FeeIncrement : FeeValues]
ApiResponses ==
    {ApiResponse(k, 0) : k \in ApiFailures}
        \cup {ApiResponse("fee", f) : f \in FeeValues}

\* fees := NewAttestFees(feesConfig)
FeeInit ==
    /\ ServiceInit
    /\ \E cfg \in FeeConfigs, resp \in ApiResponses :
          /\ fees = NewAttestFees(cfg, getBestFee(resp))
          /\ call = [op |-> "NewAttestFees", cfg |-> cfg, resp |-> resp]
    /\ main = NoMain
    /\ signer = NoSigner

\* fees.ResetFee(useMinimum...)
FeeReset ==
    \E useMinimum \in BOOLEAN, resp \in ApiResponses :
        /\ fees' = ResetFee(fees, useMinimum, getBestFee(resp))
        /\ call' = [op |-> "ResetFee", before |-> fees,
                    useMinimum |-> useMinimum, resp |-> resp]
        /\ UNCHANGED <<smVars, dbVars, dbClient, chainVars, sent, commits,
                       cycle, main, signer>>

\* fees.BumpFee()
FeeBump ==
    /\ fees' = BumpFee(fees)
    /\ call' = [op |-> "BumpFee", before |-> fees]
    /\ UNCHANGED <<smVars, dbVars, dbClient, chainVars, sent, commits, cycle,
                   main, signer>>

FeeNext == FeeReset \/ FeeBump
FeeSpec == FeeInit /\ [][FeeNext]_vars

\* C13: after NewAttestFees and any sequence of ResetFee and BumpFee calls
\* the current fee lies between the minimum and the maximum fee
C13_FeeWithinLimits ==
    fees.minFee <= fees.currentFee /\ fees.currentFee <= fees.maxFee

\* the smaller of two integers, without a width
MinOf(x, y) == IF x < y THEN x ELSE y

\* C14: BumpFee sets the current fee to min(currentFee + feeIncrement,
\* maxFee), changes none of the limits, and leaves a fee that is at the
\* maximum at the maximum
C14_BumpIsClampedSum ==
    call.op = "BumpFee" =>
        /\ fees.currentFee =
               MinOf(call.before.currentFee + call.before.feeIncrement,
                     call.before.maxFee)
        /\ fees.minFee = call.before.minFee
        /\ fees.maxFee = call.before.maxFee
        /\ fees.feeIncrement = call.before.feeIncrement
        /\ (call.before.currentFee = call.before.maxFee =>
                fees.currentFee = fees.maxFee)

C16_ValidatedLimits ==
    /\ call.op = "NewAttestFees" =>
        /\ fees.minFee =
               IF 0 < call.cfg.MinFee /\ call.cfg.MinFee < 100
               THEN call.cfg.MinFee ELSE 10
        /\ fees.maxFee =
               IF call.cfg.MaxFee > fees.minFee /\ call.cfg.MaxFee < 100
               THEN call.cfg.MaxFee ELSE 100
        /\ fees.feeIncrement =
               IF call.cfg.FeeIncrement > 0 THEN call.cfg.FeeIncrement ELSE 5
    /\ 0 < fees.minFee
    /\ fees.minFee < fees.maxFee
    /\ fees.maxFee <= 100
    /\ fees.feeIncrement > 0

\* a configuration whose minimum is invalid and whose maximum is valid
\* against the default minimum only
C16_Witness ==
    /\ call.op = "NewAttestFees"
    /\ call.cfg.MinFee = 0
    /\ call.cfg.MaxFee = DefaultMaxFee - 1
    /\ call.cfg.FeeIncrement = -1
    /\ fees.minFee = DefaultMinFee
    /\ fees.maxFee = DefaultMaxFee - 1
    /\ fees.feeIncrement = DefaultFeeIncrement

(* ------------------------- signer transport --------------------------- *)
\* byte(n): the conversion of an int to a byte keeps the low eight bits
ByteOf(n) == n % ByteSize

\* SerializeBytes, the loop over data from element i on
RECURSIVE SerializeFrom(_, _, _)
SerializeFrom(data, i, serializedBytes) ==
    IF i > Len(data) THEN serializedBytes
    ELSE SerializeFrom(data, i + 1,
                       (serializedBytes \o <<ByteOf(Len(data[i]))>>) \o data[i])

\* SerializeBytes: [len bytes0] [bytes0] [len bytes1] [bytes1] ...
SerializeBytes(data) ==
    IF Len(data) = 0 THEN <<>> ELSE SerializeFrom(data, 1, <<>>)

\* UnserializeBytes stopping one byte early
RECURSIVE UnserializeFrom_StopsEarly(_, _, _)
UnserializeFrom_StopsEarly(data, it, dataList) ==
    IF ~(it < Len(data)) THEN dataList
    ELSE LET txSize == data[it + 1]
         IN  IF txSize + 1 + it >= Len(data) THEN dataList
             ELSE UnserializeFrom_StopsEarly(data, it + 1 + txSize,
                      Append(dataList, SubSeq(data, it + 2, it + 1 + txSize)))

UnserializeBytes_StopsEarly(data) ==
    IF Len(data) = 0 THEN <<>> ELSE UnserializeFrom_StopsEarly(data, 0, <<>>)

\* UnserializeBytes, the loop from offset it on (it counts from 0 as in the
\* code, sequences from 1)
RECURSIVE UnserializeFrom(_, _, _)
UnserializeFrom(data, it, dataList) ==
    IF ~(it < Len(data)) THEN dataList
    ELSE LET txSize == data[it + 1]
         IN  IF txSize + 1 + it > Len(data) THEN dataList
             ELSE UnserializeFrom(data, it + 1 + txSize,
                      Append(dataList, SubSeq(data, it + 2, it + 1 + txSize)))

\* UnserializeBytes: the chunks of a payload, up to the first chunk whose
\* length byte runs past the end
UnserializeBytes(data) ==
    IF Len(data) = 0 THEN <<>> ELSE UnserializeFrom(data, 0, <<>>)

(* ------------------- the framing functions on their own --------------- *)
\* chunks: every byte string over SomeBytes up to MaxChunkLen bytes, and
\* strings just below, at and above the largest length a byte can hold
SomeBytes == {0, 1, 170}
Filled(n, b) == [i \in 1..n |-> b]
ShortChunks == UNION {[1..n -> SomeBytes] : n \in 0..MaxChunkLen}
LongChunks == {Filled(n, 170) : n \in {ByteSize - 1, ByteSize, ByteSize + 1}}
Chunks == ShortChunks \cup LongChunks
ChunkLists == UNION {[1..n -> Chunks] : n \in 0..MaxChunks}

\* the list a caller holds
SerialInit ==
    /\ ServiceInit
    /\ fees = NewAttestFees(FeesConfig, -1)
    /\ call \in {[op |-> "data", xs |-> xs] : xs \in ChunkLists}
    /\ main = NoMain
    /\ signer = NoSigner

\* payload := SerializeBytes(xs)
Serialize ==
    /\ call.op = "data"
    /\ call' = [op |-> "SerializeBytes", xs |-> call.xs,
                payload |-> SerializeBytes(call.xs)]
    /\ UNCHANGED <<serviceVars, main, signer>>

\* out := UnserializeBytes(payload)
Unserialize ==
    /\ call.op = "SerializeBytes"
    /\ call' = [op |-> "UnserializeBytes", xs |-> call.xs,
                payload |-> call.payload,
                out |-> UnserializeBytes(call.payload)]
    /\ UNCHANGED <<serviceVars, main, signer>>

SerialNext == Serialize \/ Unserialize
SerialSpec == SerialInit /\ [][SerialNext]_vars

\* C17: for every list xs of byte strings of at most 255 bytes each, the
\* empty list and empty elements included,
\* UnserializeBytes(SerializeBytes(xs)) is xs, element for element in order
C17_RoundTrip ==
    call.op = "UnserializeBytes" /\ (\A i \in DOMAIN call.xs : Len(call.xs[i]) <= 255)
        => /\ Len(call.out) = Len(call.xs)
           /\ \A i \in DOMAIN call.xs : call.out[i] = call.xs[i]

\* a list of an empty element and a 255-byte element has come back
C17_Witness ==
    /\ call.op = "UnserializeBytes"
    /\ Len(call.xs) = 2
    /\ call.xs[1] = <<>>
    /\ Len(call.xs[2]) = 255
    /\ call.out = call.xs

\* offset in the payload of the length byte of element i, every element
\* before it taking one byte more than its length
RECURSIVE FrameOffset(_, _)
FrameOffset(xs, i) ==
    IF i = 1 THEN 1 ELSE FrameOffset(xs, i - 1) + 1 + Len(xs[i - 1])

\* C18: the payload of SerializeBytes is the in-order concatenation of
\* (length byte || chunk), every length byte being the true length of the
\* chunk that follows; the empty list gives the empty payload
C18_TrueLengthFraming ==
    call.op = "SerializeBytes" =>
        /\ Len(call.payload) = FrameOffset(call.xs, Len(call.xs) + 1) - 1
        /\ \A i \in DOMAIN call.xs :
              /\ call.payload[FrameOffset(call.xs, i)] = Len(call.xs[i])
              /\ SubSeq(call.payload, FrameOffset(call.xs, i) + 1,
                        FrameOffset(call.xs, i) + Len(call.xs[i])) = call.xs[i]
        /\ (call.xs = <<>> => call.payload = <<>>)

(* ----------------------- collecting signatures ------------------------ *)
TopicSigs == "S"

\* getSigsFromMsgs: for each input the signatures of the messages that have
\* one for it, in the order of the messages
RECURSIVE SigsOfInput(_, _, _)
SigsOfInput(msgs, i, k) ==
    IF k > Len(msgs) THEN <<>>
    ELSE (IF Len(msgs[k]) > i - 1 THEN <<msgs[k][i]>> ELSE <<>>)
             \o SigsOfInput(msgs, i, k + 1)

getSigsFromMsgs(msgs, numOfInputs) ==
    IF numOfInputs = 0 THEN <<>>
    ELSE [i \in 1..numOfInputs |-> SigsOfInput(msgs, i, 1)]

\* updateNumOfTxInputs taking the length of the latest message
updateNumOfTxInputs_Latest(msgSplit, numOfInputs) == Len(msgSplit)

\* updateNumOfTxInputs: the largest number of signatures of a message so far
updateNumOfTxInputs(msgSplit, numOfInputs) ==
    IF Len(msgSplit) > numOfInputs THEN Len(msgSplit) ELSE numOfInputs

\* SubscriberZmq.ReadMessage: the envelope frame and the contents frame of
\* the oldest message queued on the socket
ReadMessage(queue) == [address |-> Head(queue)[1], contents |-> Head(queue)[2]]

\* SubscriberZmq.Socket of the subscriber of peer p
Socket(p) == <<"subscriber", p>>

\* the publisher socket, which NewPublisherZmq adds to the poller, is always
\* ready
PublisherSockets == {<<"publisher", 0>>}

\* poller.Poll without the publisher socket
Poll_SubscribersOnly(z) ==
    {Socket(p) : p \in {q \in 1..NumPeers : z.queues[q] # <<>>}}

\* poller.Poll(-1): the sockets of the poller that are ready, once there is
\* one; a subscriber socket is ready when a message is queued on it
Poll(z) ==
    {Socket(p) : p \in {q \in 1..NumPeers : z.queues[q] # <<>>}}
        \cup PublisherSockets

\* GetSigs after the loop of a subscriber: the latest message is kept if it
\* is not empty; after the last subscriber the call returns
EndOfSubscriber(z) ==
    LET keep == Len(z.subMsg) > 0
        numOfTxInputs == IF keep
                         THEN updateNumOfTxInputs(z.subMsg, z.numOfTxInputs)
                         ELSE z.numOfTxInputs
        msgs == IF keep THEN Append(z.msgs, z.subMsg) ELSE z.msgs
    IN  IF z.sub < NumPeers
        THEN [z EXCEPT !.sub = @ + 1, !.subMsg = <<>>,
                       !.numOfTxInputs = numOfTxInputs, !.msgs = msgs]
        ELSE [z EXCEPT !.pc = "returned",
                       !.numOfTxInputs = numOfTxInputs, !.msgs = msgs,
                       !.result = getSigsFromMsgs(msgs, numOfTxInputs)]

\* GetSigs keeping the first message of a subscriber
GetSigsPoll_KeepsFirst(z) ==
    IF Socket(z.sub) \in Poll(z)
    THEN [z EXCEPT !.subMsg = IF @ = <<>>
                              THEN UnserializeBytes(ReadMessage(z.queues[z.sub]).contents)
                              ELSE @,
                   !.queues[z.sub] = Tail(@)]
    ELSE EndOfSubscriber(z)

\* GetSigs, one turn of the polling loop of subscriber z.sub: read a message
\* if its socket is among the ready ones, else leave the loop
GetSigsPoll(z) ==
    IF Socket(z.sub) \in Poll(z)
    THEN [z EXCEPT !.subMsg = UnserializeBytes(ReadMessage(z.queues[z.sub]).contents),
                   !.queues[z.sub] = Tail(@)]
    ELSE EndOfSubscriber(z)

(* --------------------- the signer transport on its own ---------------- *)
\* what peer p publishes on the Sigs topic: the framed signatures for no,
\* one or two inputs, and a payload cut short; the bytes name the peer
SigLists(p) == {<<>>, <<<<10 * p + 1>>>>, <<<<10 * p + 2>>, <<10 * p + 3>>>>}
SigPayloads(p) == {SerializeBytes(xs) : xs \in SigLists(p)} \cup {<<2, 10 * p + 4>>}

\* NewAttestSignerZmq: one subscriber per peer, nothing queued. History:
\* log is what each peer has published, start the number of messages of each
\* peer read before the running GetSigs call
SignerInit ==
    /\ ServiceInit
    /\ fees = NewAttestFees(FeesConfig, -1)
    /\ call = NoCall
    /\ main = NoMain
    /\ signer = [pc |-> "idle", queues |-> [p \in 1..NumPeers |-> <<>>],
                 sub |-> 1, subMsg |-> <<>>, msgs |-> <<>>,
                 numOfTxInputs |-> 0, result |-> <<>>,
                 log |-> [p \in 1..NumPeers |-> <<>>],
                 start |-> [p \in 1..NumPeers |-> 0]]

\* number of messages the peers 1..p have published
RECURSIVE PublishedBy(_)
PublishedBy(p) == IF p = 0 THEN 0 ELSE PublishedBy(p - 1) + Len(signer.log[p])
Published == PublishedBy(NumPeers)

\* a peer publishes a message, which its subscriber socket queues
PeerSend ==
    \E p \in 1..NumPeers :
        \E m \in SigPayloads(p) :
            /\ Published < MaxMsgs
            /\ signer' = [signer EXCEPT !.queues[p] = Append(@, <<TopicSigs, m>>),
                                        !.log[p] = Append(@, m)]
            /\ UNCHANGED <<serviceVars, main, call>>

\* z.GetSigs() is called
GetSigsCall ==
    /\ signer.pc \in {"idle", "returned"}
    /\ signer' = [signer EXCEPT
                      !.pc = "poll", !.sub = 1, !.subMsg = <<>>,
                      !.msgs = <<>>, !.numOfTxInputs = 0, !.result = <<>>,
                      !.start = [p \in 1..NumPeers |->
                                    Len(signer.log[p]) - Len(signer.queues[p])]]
    /\ UNCHANGED <<serviceVars, main, call>>

\* one turn of the polling loop; Poll(-1) waits until a socket is ready
GetSigsStep ==
    /\ signer.pc = "poll"
    /\ Poll(signer) # {}
    /\ signer' = GetSigsPoll(signer)
    /\ UNCHANGED <<serviceVars, main, call>>

SignerNext == PeerSend \/ GetSigsCall \/ GetSigsStep
SignerSpec == SignerInit /\ [][SignerNext]_vars
\* the goroutine that calls GetSigs keeps running
SignerFairSpec == SignerSpec /\ WF_vars(GetSigsStep)

\* the messages of peer p the running (or last) GetSigs call has read
ReadOf(p) ==
    SubSeq(signer.log[p], signer.start[p] + 1,
           Len(signer.log[p]) - Len(signer.queues[p]))

\* what peer p contributes: the decoding of the last message read from it
Contribution(p) ==
    IF ReadOf(p) = <<>> THEN <<>>
    ELSE UnserializeBytes(ReadOf(p)[Len(ReadOf(p))])

\* the non-empty contributions of peers 1..p in order
RECURSIVE Kept(_)
Kept(p) ==
    IF p = 0 THEN <<>>
    ELSE Kept(p - 1) \o (IF Contribution(p) # <<>> THEN <<Contribution(p)>> ELSE <<>>)

\* C19: GetSigs leaves the loop of a peer only when nothing is queued on its
\* subscriber, and what the peer contributes is decoded from the last message
\* read from that peer's subscriber alone: no earlier message of the peer and
\* no message of another peer is in it
C19_LastMessageOfEachPeer ==
    /\ [](signer.pc = "poll" =>
            /\ signer.subMsg = Contribution(signer.sub)
            /\ signer.msgs = Kept(signer.sub - 1))
    /\ [](signer.pc = "returned" =>
            /\ signer.msgs = Kept(NumPeers)
            /\ \A i \in DOMAIN signer.result :
                  signer.result[i] = SigsOfInput(Kept(NumPeers), i, 1)
            /\ \A k \in DOMAIN signer.msgs : Len(signer.msgs[k]) <= Len(signer.result))
    /\ [][signer.pc = "poll" /\ (signer'.sub # signer.sub \/ signer'.pc = "returned")
              => signer.queues[signer.sub] = <<>>]_vars

\* GetSigs has returned after reading two messages of peer 1 and one of peer
\* 2; the result holds the signatures of the second message of peer 1
C19_Witness ==
    /\ signer.pc = "returned"
    /\ Len(ReadOf(1)) = 2
    /\ Len(ReadOf(2)) = 1
    /\ UnserializeBytes(ReadOf(1)[1]) = <<<<11>>>>
    /\ signer.result = <<<<<<12>>, <<21>>>>, <<<<13>>>>>>

MainInit ==
    /\ ServiceInit
    /\ fees \in {NewAttestFees(FeesConfig, best) : best \in OracleFees}
    /\ main \in {[pcMain |-> "start", pcSignal |-> "none", pcService |-> "none",
                  pcWorker |-> "none", ctxDone |-> FALSE, wg |-> 0,
                  isRegtest |-> r, sigints |-> 0] : r \in BOOLEAN}
    /\ call = NoCall
    /\ signer = NoSigner

\* signal.Notify(c, os.Interrupt)
MainNotify ==
    /\ main.pcMain = "start"
    /\ main' = [main EXCEPT !.pcMain = "notified"]
    /\ UNCHANGED <<serviceVars, call, signer>>

\* wg.Add(1); go func() { ... }()
MainGoSignal ==
    /\ main.pcMain = "notified"
    /\ main' = [main EXCEPT !.pcMain = "goService", !.wg = @ + 1,
                            !.pcSignal = "spawned"]
    /\ UNCHANGED <<serviceVars, call, signer>>

\* wg.Add(1); go attestService.Run()
MainGoService ==
    /\ main.pcMain = "goService"
    /\ main' = [main EXCEPT !.pcMain = IF main.isRegtest THEN "goWorker" ELSE "wait",
                            !.wg = @ + 1, !.pcService = "select"]
    /\ UNCHANGED <<serviceVars, call, signer>>

\* if isRegtest { wg.Add(1); go test.DoRegtestWork(mainConfig, wg, ctx) }
MainGoWorker ==
    /\ main.pcMain = "goWorker"
    /\ main' = [main EXCEPT !.pcMain = "wait", !.wg = @ + 1, !.pcWorker = "run"]
    /\ UNCHANGED <<serviceVars, call, signer>>

\* wg.Wait() returns, main returns and the deferred Close and Shutdown run
MainReturn ==
    /\ main.pcMain = "wait"
    /\ main.wg = 0
    /\ main' = [main EXCEPT !.pcMain = "done"]
    /\ UNCHANGED <<serviceVars, call, signer>>

\* the process gets a SIGINT while c is registered: the signal package sends
\* on c without blocking, so the signal is handed over only if the handler
\* goroutine is waiting in its select, and is dropped otherwise
SigInt ==
    /\ main.pcMain \notin {"start", "done"}
    /\ main.sigints < MaxSigints
    /\ main' = [main EXCEPT !.sigints = @ + 1,
                            !.pcSignal = IF @ = "select" THEN "woken" ELSE @]
    /\ UNCHANGED <<serviceVars, call, signer>>

\* the handler goroutine reaches its select: it waits for c or ctx.Done()
SignalSelect ==
    /\ main.pcSignal = "spawned"
    /\ main' = [main EXCEPT !.pcSignal = IF main.ctxDone THEN "woken" ELSE "select"]
    /\ UNCHANGED <<serviceVars, call, signer>>

\* the handler returns, its defers run last in first out: wg.Done()
SignalDone ==
    /\ main.pcSignal = "woken"
    /\ main' = [main EXCEPT !.pcSignal = "cancel", !.wg = @ - 1]
    /\ UNCHANGED <<serviceVars, call, signer>>

\* then cancel()
SignalCancel ==
    /\ main.pcSignal = "cancel"
    /\ main' = [main EXCEPT !.pcSignal = "done", !.ctxDone = TRUE]
    /\ UNCHANGED <<serviceVars, call, signer>>

\* Run never looking at the context
ServiceSelect_IgnoresCancel ==
    /\ main.pcService = "select"
    /\ main' = IF ~running
               THEN [main EXCEPT !.pcService = "done", !.wg = @ - 1]
               ELSE [main EXCEPT !.pcService = "step"]
    /\ UNCHANGED <<serviceVars, call, signer>>

\* attestService.Run between two steps: it exits when the context is
\* cancelled or the service has stopped, else it takes the next step
ServiceSelect ==
    /\ main.pcService = "select"
    /\ main' = IF main.ctxDone \/ ~running
               THEN [main EXCEPT !.pcService = "done", !.wg = @ - 1]
               ELSE [main EXCEPT !.pcService = "step"]
    /\ UNCHANGED <<serviceVars, call, signer>>

\* a step of the state machine, run to its end
ServiceStep(doState) ==
    /\ main.pcService = "step"
    /\ doState
    /\ main' = [main EXCEPT !.pcService = "select"]
    /\ UNCHANGED <<call, signer>>

\* a step that only waits (no new commitment, no confirmation yet)
ServiceWait ==
    /\ main.pcService = "step"
    /\ main' = [main EXCEPT !.pcService = "select"]
    /\ UNCHANGED <<serviceVars, call, signer>>

\* DoRegtestWork returns on ctx.Done()
WorkerExit ==
    /\ main.pcWorker = "run"
    /\ main.ctxDone
    /\ main' = [main EXCEPT !.pcWorker = "done", !.wg = @ - 1]
    /\ UNCHANGED <<serviceVars, call, signer>>

MainNext ==
    \/ MainNotify
    \/ MainGoSignal
    \/ MainGoService
    \/ MainGoWorker
    \/ MainReturn
    \/ SigInt
    \/ SignalSelect
    \/ SignalDone
    \/ SignalCancel
    \/ ServiceSelect
    \/ ServiceStep(doStateInit)
    \/ ServiceStep(doStateNextCommitment)
    \/ ServiceStep(doStateNewAttestation)
    \/ ServiceStep(doStateSignAttestation)
    \/ ServiceStep(doStatePreSendStore)
    \/ ServiceStep(doStateSendAttestation)
    \/ ServiceStep(doStateAwaitConfirmation)
    \/ ServiceStep(doStateHandleUnconfirmed)
    \/ ServiceStep(doStateError)
    \/ ServiceWait
    \/ WorkerExit
    \/ ClientCommit /\ commits < MainCommits /\ UNCHANGED <<main, call, signer>>
    \/ Mine /\ Len(blocks) < MainBlocks /\ UNCHANGED <<main, call, signer>>

MainSpec == MainInit /\ [][MainNext]_vars

\* the steps of the state machine and its waiting
ServiceRun ==
    \/ ServiceStep(doStateInit)
    \/ ServiceStep(doStateNextCommitment)
    \/ ServiceStep(doStateNewAttestation)
    \/ ServiceStep(doStateSignAttestation)
    \/ ServiceStep(doStatePreSendStore)
    \/ ServiceStep(doStateSendAttestation)
    \/ ServiceStep(doStateAwaitConfirmation)
    \/ ServiceStep(doStateHandleUnconfirmed)
    \/ ServiceStep(doStateError)
    \/ ServiceWait

\* every goroutine that can take a step takes one: main, the signal handler,
\* the service between steps and within a step, the regtest worker
MainFairSpec ==
    /\ MainSpec
    /\ WF_vars(MainNotify \/ MainGoSignal \/ MainGoService \/ MainGoWorker \/ MainReturn)
    /\ WF_vars(SignalSelect \/ SignalDone \/ SignalCancel)
    /\ WF_vars(ServiceSelect)
    /\ WF_vars(ServiceRun)
    /\ WF_vars(WorkerExit)

(* ------------------ the service and the cancel alone ------------------ *)
\* main is waiting in wg.Wait(), the handler in its select, the service is
\* between two steps
RunInit ==
    /\ ServiceInit
    /\ fees \in {NewAttestFees(FeesConfig, best) : best \in OracleFees}
    /\ main = [pcMain |-> "wait", pcSignal |-> "select", pcService |-> "select",
               pcWorker |-> "none", ctxDone |-> FALSE, wg |-> 2,
               isRegtest |-> FALSE, sigints |-> 0]
    /\ call = NoCall
    /\ signer = NoSigner

\* the handler gets the signal and returns: wg.Done() and cancel()
Cancel ==
    /\ main.pcSignal = "select"
    /\ main' = [main EXCEPT !.sigints = @ + 1, !.pcSignal = "done",
                            !.wg = @ - 1, !.ctxDone = TRUE]
    /\ UNCHANGED <<serviceVars, call, signer>>

RunNext ==
    \/ Cancel
    \/ ServiceSelect
    \/ ServiceStep(doStateInit)
    \/ ServiceStep(doStateNextCommitment)
    \/ ServiceStep(doStateNewAttestation)
    \/ ServiceStep(doStateSignAttestation)
    \/ ServiceStep(doStatePreSendStore)
    \/ ServiceStep(doStateSendAttestation)
    \/ ServiceStep(doStateAwaitConfirmation)
    \/ ServiceStep(doStateHandleUnconfirmed)
    \/ ServiceStep(doStateError)
    \/ ServiceWait
    \/ ClientCommit /\ commits < MainCommits /\ UNCHANGED <<main, call, signer>>
    \/ Mine /\ Len(blocks) < MainBlocks /\ UNCHANGED <<main, call, signer>>

\* the service goroutine is scheduled between its steps and within a step
RunSpec == RunInit /\ [][RunNext]_vars
RunFairSpec == RunSpec /\ WF_vars(ServiceSelect) /\ WF_vars(ServiceRun)

\* the machine broadcasts its transaction
Broadcast == state = AStateSendAttestation /\ state' = AStateAwaitConfirmation

C12_SigintCancelsMainJoins ==
    /\ (main.sigints > 0) ~> main.ctxDone
    /\ [](main.pcMain = "done" =>
            /\ main.wg = 0
            /\ main.pcSignal \in {"cancel", "done"}
            /\ main.pcService = "done"
            /\ (main.isRegtest => main.pcWorker = "done"))

\* the second half of C12 alone
MainJoins ==
    main.pcMain = "done" =>
        /\ main.wg = 0
        /\ main.pcSignal \in {"cancel", "done"}
        /\ main.pcService = "done"
        /\ (main.isRegtest => main.pcWorker = "done")

(* ------------------------ the signature matrix ------------------------ *)
\* the peers 1..p that contribute a message to the call, in order
RECURSIVE Senders(_)
Senders(p) ==
    IF p = 0 THEN <<>>
    ELSE Senders(p - 1) \o (IF Contribution(p) # <<>> THEN <<p>> ELSE <<>>)

\* the peers 1..p whose contribution holds a signature for input i, in order
RECURSIVE SendersFor(_, _)
SendersFor(i, p) ==
    IF p = 0 THEN <<>>
    ELSE SendersFor(i, p - 1) \o (IF Len(Contribution(p)) >= i THEN <<p>> ELSE <<>>)

\* the largest number of signatures a peer 1..p contributes
RECURSIVE MaxContribution(_)
MaxContribution(p) ==
    IF p = 0 THEN 0
    ELSE IF Len(Contribution(p)) > MaxContribution(p - 1)
         THEN Len(Contribution(p)) ELSE MaxContribution(p - 1)

\* C21 as stated: the result has one row per input up to the longest list of
\* a peer, and entry [i][j] is the signature for input i of the j-th peer
\* that sent a message
C21_ColumnIsSendingPeer ==
    signer.pc = "returned" =>
        /\ Len(signer.result) = MaxContribution(NumPeers)
        /\ \A i \in DOMAIN signer.result :
              \A j \in DOMAIN signer.result[i] :
                  /\ j <= Len(Senders(NumPeers))
                  /\ Len(Contribution(Senders(NumPeers)[j])) >= i
                  /\ signer.result[i][j] = Contribution(Senders(NumPeers)[j])[i]

\* C21: the result has one row per input up to the longest list of a peer;
\* row i holds the signatures for input i of the peers whose list has one for
\* it, in peer order, so entry [i][j] belongs to the j-th peer that sent a
\* signature for input i; a peer that sent nothing, or an empty or
\* undecodable payload, is in no row. When all the lists have the same
\* length, column j is the j-th peer that sent a message
C21_RowIsPeersWithInput ==
    signer.pc = "returned" =>
        /\ Len(signer.result) = MaxContribution(NumPeers)
        /\ \A i \in DOMAIN signer.result :
              /\ Len(signer.result[i]) = Len(SendersFor(i, NumPeers))
              /\ \A j \in DOMAIN signer.result[i] :
                    signer.result[i][j] = Contribution(SendersFor(i, NumPeers)[j])[i]
        /\ ((\A p \in 1..NumPeers :
                Len(Contribution(p)) \in {0, MaxContribution(NumPeers)})
            => \A i \in DOMAIN signer.result :
                  SendersFor(i, NumPeers) = Senders(NumPeers))

\* GetSigs has returned with one signature of peer 1 and two of peer 2: the
\* row of the second input starts with the signature of peer 2
C21_Witness ==
    /\ signer.pc = "returned"
    /\ Contribution(1) = <<<<11>>>>
    /\ Contribution(2) = <<<<22>>, <<23>>>>
    /\ signer.result = <<<<<<11>>, <<22>>>>, <<<<23>>>>>>

(* ----------------------------- ReSubscribe ---------------------------- *)
\* the address host:port of the signer node p, and the signer lists a
\* configuration can hold (a node may be listed twice)
NodeAddr(p) == <<"node", p>>
RECURSIVE AddrLists(_)
AddrLists(n) ==
    IF n = 0 THEN {<<>>}
    ELSE AddrLists(n - 1)
            \cup {Append(l, NodeAddr(p)) : l \in {x \in AddrLists(n - 1) : Len(x) = n - 1},
                                          p \in 1..NumPeers}
SignerConfigs == {[Publisher |-> "", Signers |-> l] : l \in AddrLists(NumPeers)}

\* the sockets created so far are z.sockets[1], z.sockets[2], ...; the
\* subscriber socket number n
SubSocket(n) == <<"subscriber", n>>
SocketNo(s) == s[2]

\* SubscriberZmq.Close without the removal from the poller
Close_SocketOnly(z, s) == [z EXCEPT !.sockets[SocketNo(s)].open = FALSE]

\* SubscriberZmq.Close: the socket is removed from the poller and closed
Close(z, s) ==
    [z EXCEPT !.poller = SelectSeq(@, LAMBDA x : x # s),
              !.sockets[SocketNo(s)].open = FALSE]

\* NewSubscriberZmq: a new SUB socket connected to tcp://host:port and
\* subscribed to the topics is added to the poller; the signer record with
\* the new subscriber appended to subs
NewSubscriberZmq(z, address, topics) ==
    LET subscriber == SubSocket(Len(z.sockets) + 1)
    IN  [z EXCEPT !.sockets = Append(@, [open |-> TRUE,
                                        endpoint |-> <<"tcp", address[1], address[2]>>,
                                        topics |-> topics,
                                        queue |-> 0]),
                  !.poller = Append(@, subscriber),
                  !.subs = Append(@, subscriber)]

\* the loops of ReSubscribe and NewAttestSignerZmq over the subscribers and
\* over config.Signers
RECURSIVE CloseAll(_, _)
CloseAll(z, k) ==
    IF k > Len(z.subscribers) THEN z
    ELSE CloseAll(Close(z, z.subscribers[k]), k + 1)

RECURSIVE Connect(_, _)
Connect(z, k) ==
    IF k > Len(z.config.Signers) THEN z
    ELSE Connect(NewSubscriberZmq(z, z.config.Signers[k], {TopicSigs}), k + 1)

\* AttestSignerZmq.ReSubscribe
ReSubscribe(z) ==
    LET closed == [CloseAll(z, 1) EXCEPT !.subscribers = <<>>, !.subs = <<>>]
        connected == Connect(closed, 1)
    IN  [connected EXCEPT !.subscribers = connected.subs, !.subs = <<>>]

\* NewAttestSignerZmq(config)
NewAttestSignerZmq(config) ==
    LET z0 == [pc |-> "resub", publisher |-> <<"publisher", 0>>,
               subscribers |-> <<>>, config |-> config,
               poller |-> <<<<"publisher", 0>>>>, sockets |-> <<>>,
               subs |-> <<>>, received |-> 0, calls |-> 0]
        connected == Connect(z0, 1)
    IN  [connected EXCEPT !.subscribers = connected.subs, !.subs = <<>>]

ReSubInit ==
    /\ ServiceInit
    /\ fees = NewAttestFees(FeesConfig, -1)
    /\ main = NoMain
    /\ call = NoCall
    /\ signer \in {NewAttestSignerZmq(config) : config \in SignerConfigs}

\* the service calls signer.ReSubscribe()
ReSubscribeCall ==
    /\ signer.calls < MaxReSubs
    /\ signer' = [ReSubscribe(signer) EXCEPT !.calls = @ + 1]
    /\ call' = [op |-> "ReSubscribe", before |-> signer]
    /\ UNCHANGED <<serviceVars, main>>

\* a message of its node is queued on an open subscriber socket
SocketReceive ==
    \E n \in DOMAIN signer.sockets :
        /\ signer.sockets[n].open
        /\ signer.received < MaxMsgs
        /\ signer' = [signer EXCEPT !.sockets[n].queue = @ + 1,
                                    !.received = @ + 1]
        /\ UNCHANGED <<serviceVars, main, call>>

ReSubNext == ReSubscribeCall \/ SocketReceive
ReSubSpec == ReSubInit /\ [][ReSubNext]_vars

\* C22: after every ReSubscribe call the signer holds one open subscriber per
\* configured signer address, in the order of the configuration, each
\* connected to its address, subscribed to the signatures topic and in the
\* poller; every subscriber socket from before the call is closed and out of
\* the poller, no other socket is open, and the publisher socket and the
\* configuration are those from before the call
C22_ReSubscribe ==
    call.op = "ReSubscribe" =>
        /\ Len(signer.subscribers) = Len(signer.config.Signers)
        /\ \A k \in DOMAIN signer.subscribers :
              LET s == signer.sockets[SocketNo(signer.subscribers[k])]
              IN  /\ s.open
                  /\ s.endpoint = <<"tcp", signer.config.Signers[k][1],
                                    signer.config.Signers[k][2]>>
                  /\ s.topics = {TopicSigs}
                  /\ \A j \in DOMAIN signer.subscribers :
                        signer.subscribers[j] = signer.subscribers[k] => j = k
        /\ \A k \in DOMAIN call.before.subscribers :
              /\ ~signer.sockets[SocketNo(call.before.subscribers[k])].open
              /\ call.before.subscribers[k] \notin Range(signer.poller)
        /\ \A n \in DOMAIN signer.sockets :
              signer.sockets[n].open => SubSocket(n) \in Range(signer.subscribers)
        /\ signer.poller = <<signer.publisher>> \o signer.subscribers
        /\ signer.publisher = call.before.publisher
        /\ signer.config = call.before.config

\* the second ReSubscribe call of a signer with two configured nodes has
\* closed a socket with a message queued on it
C22_Witness ==
    /\ call.op = "ReSubscribe"
    /\ signer.calls = 2
    /\ signer.config.Signers = <<NodeAddr(1), NodeAddr(2)>>
    /\ signer.subscribers = <<SubSocket(5), SubSocket(6)>>
    /\ signer.sockets[3].queue = 1
    /\ ~signer.sockets[3].open

(* ------------------- the attest client on its own --------------------- *)
\* the clients NewAttestClient returns: one that only builds transactions,
\* and the client of each signer of the multisig
Clients ==
    {NewAttestClient(FALSE, 0)} \cup {NewAttestClient(TRUE, k) : k \in 1..NumPeers}

\* commitment hashes: the zero hash and the hash of a commitment
TxHashes == {ZeroHash, <<1>>}

\* the attestation of the commitment <<1>> at the minimum fee, confirmed
AttestedTx == <<txid0, GetNextAttestationAddr(<<1>>), Amount0 - CfgMinFee * BaseSize>>

\* outputs of the wallet a transaction is built on
TxUnspents ==
    {[TxID |-> t, Vout |-> v, Amount |-> TxValue(t)] :
        t \in {txid0} \cup Range(blocks), v \in {0, 1}}

\* the signatures received from the peers, in the order received
PeerSigLists ==
    {<<>>} \cup {<<j>> : j \in 1..NumPeers}
           \cup {<<p[1], p[2]>> : p \in {q \in (1..NumPeers) \X (1..NumPeers) : q[1] # q[2]}}
           \cup {[j \in 1..NumPeers |-> j]}

\* the fee settings: the validated ones, and an increment at the end of int
TxFeesConfigs == {FeesConfig, [FeesConfig EXCEPT !.FeeIncrement = MaxInt]}

\* the node answers both calls, with or without spare capacity in the slice
\* of combined signatures, or one of the calls fails
SignEnvs ==
    {[NoRpc EXCEPT !.spare = n] : n \in {0, 1}}
        \cup {[NoRpc EXCEPT !.rawOk = FALSE], [NoRpc EXCEPT !.signOk = FALSE]}

TxInit ==
    /\ state = AStateInit
    /\ errorFrom = NoError
    /\ running = TRUE
    /\ attestation = NewAttestationDefault
    /\ msgtx = NoTx
    /\ dbAttestations = <<>>
    /\ dbCommitments = {}
    /\ dbProofs = {}
    /\ dbInfo = {}
    /\ dbClient = <<>>
    /\ mempool = <<>>
    /\ blocks \in {<<>>, <<AttestedTx>>}
    /\ sent = {}
    /\ commits = 0
    /\ cycle = 0
    /\ fees \in {NewAttestFees(cfg, best) : cfg \in TxFeesConfigs, best \in OracleFees}
    /\ main = NoMain
    /\ signer = NoSigner
    /\ call \in {[op |-> "NewAttestClient", w |-> w, bumps |-> 0] : w \in Clients}

\* w.createAttestation(paytoaddr, txunspent)
CreateCall ==
    \E u \in TxUnspents, hash \in TxHashes, conv \in FloatConversions :
        /\ msgtx = NoTx
        /\ msgtx' = createAttestation(GetNextAttestationAddr(hash), u, fees, conv)
        /\ call' = [op |-> "createAttestation", w |-> call.w, txunspent |-> u,
                    paytoaddr |-> GetNextAttestationAddr(hash), fees |-> fees,
                    conv |-> conv, bumps |-> 0]
        /\ UNCHANGED <<state, errorFrom, running, attestation, fees, dbVars,
                       dbClient, chainVars, sent, commits, cycle, main, signer>>

\* w.signAttestation(msgtx, sigs, hash) on the unsigned transaction that
\* createAttestation or bumpAttestationFees left
SignCall ==
    \E sigs \in PeerSigLists, hash \in TxHashes, env \in SignEnvs :
        LET r == signAttestation(call.w, msgtx, sigs, hash, env)
        IN  /\ call.op \in {"createAttestation", "bumpAttestationFees"}
            /\ call' = [op |-> "signAttestation", w |-> call.w, msgtx |-> msgtx,
                        sigs |-> sigs, hash |-> hash, env |-> env, result |-> r,
                        bumps |-> call.bumps]
            /\ msgtx' = IF r.err \/ r.panic THEN msgtx ELSE r.tx
            /\ UNCHANGED <<state, errorFrom, running, attestation, fees, dbVars,
                           dbClient, chainVars, sent, commits, cycle, main, signer>>

\* w.bumpAttestationFees(msgtx)
BumpCall ==
    LET r == bumpAttestationFees(msgtx, fees)
    IN  /\ msgtx # NoTx
        /\ call.bumps < MaxBumps
        /\ call' = [op |-> "bumpAttestationFees", w |-> call.w, msgtx |-> msgtx,
                    fees |-> fees, bumps |-> call.bumps + 1]
        /\ msgtx' = r.tx
        /\ fees' = r.fees
        /\ UNCHANGED <<state, errorFrom, running, attestation, dbVars, dbClient,
                       chainVars, sent, commits, cycle, main, signer>>

\* w.GetScriptFromHash(hash), w.GetKeyFromHash(hash) of a signer client and
\* w.GetNextAttestationAddr(key, hash)
ScriptCall ==
    \E hash \in TxHashes \cup {<<2>>} :
        /\ call.op = "NewAttestClient"
        /\ call' = [op |-> "GetScriptFromHash", w |-> call.w, hash |-> hash,
                    script |-> GetScriptFromHash(hash),
                    key |-> IF call.w.WalletPriv # NoKey
                            THEN GetKeyFromHash(call.w, hash) ELSE NoKey,
                    next |-> GetNextAttestationAddr(hash), bumps |-> 0]
        /\ UNCHANGED <<serviceVars, main, signer>>

TxNext == CreateCall \/ SignCall \/ BumpCall \/ ScriptCall
TxSpec == TxInit /\ [][TxNext]_vars

\* the signatures of its own the client has put in the scriptSig when
\* signAttestation comes to combine: none when it is not a signer
LocalSigs ==
    IF call.w.WalletPriv = NoKey THEN <<>>
    ELSE SignTransaction(call.w, call.hash, call.msgtx, call.env).tx.script.sigs

\* whether the last signAttestation call has put numOfSigs signatures in the
\* scriptSig
FinalScriptSig ==
    /\ ~call.result.err
    /\ ~call.result.panic
    /\ Len(call.result.tx.script.sigs) >= NumOfSigs

\* C23: a signAttestation call whose node calls succeed builds the final
\* M-of-N scriptSig only if the local and the received signatures are at
\* least M together; with fewer it returns, without error and without
\* failing, the transaction with the local signature alone (signer) or
\* unsigned (not a signer)
C23_PartialWhenFewerThanM ==
    (call.op = "signAttestation" /\ ~call.result.err) =>
        /\ (FinalScriptSig => Len(LocalSigs) + Len(call.sigs) >= NumOfSigs)
        /\ (Len(LocalSigs) + Len(call.sigs) < NumOfSigs =>
               /\ ~call.result.panic
               /\ call.result.tx =
                     [call.msgtx EXCEPT !.script =
                         IF LocalSigs = <<>> THEN NoScript
                         ELSE [sigs |-> LocalSigs,
                               redeem |-> GetScriptFromHash(call.hash)]])

\* C24: when a signAttestation call has put M signatures in the scriptSig,
\* they are the first M of the local signatures followed by the received
\* ones in the order received, so that a local signature is the first
C24_FirstMOfLocalThenPeers ==
    (call.op = "signAttestation" /\ FinalScriptSig) =>
        /\ Len(LocalSigs \o call.sigs) >= NumOfSigs
        /\ call.result.tx.script.sigs = SubSeq(LocalSigs \o call.sigs, 1, NumOfSigs)
        /\ (LocalSigs # <<>> => call.result.tx.script.sigs[1] = LocalSigs[1])

\* signAttestation with at least M signatures in all: the call returns the
\* final scriptSig of the first M, the local one first
SignAttestationWithEnoughSigs ==
    (/\ call.op = "signAttestation"
     /\ ~call.result.err
     /\ Len(LocalSigs) + Len(call.sigs) >= NumOfSigs) =>
        /\ FinalScriptSig
        /\ call.result.tx.script.sigs = SubSeq(LocalSigs \o call.sigs, 1, NumOfSigs)
        /\ call.result.tx.script.redeem = GetScriptFromHash(call.hash)

\* signAttestation of a client that has no signature of its own and too few
\* received ones: the transaction comes back as it was
SignAttestationWithoutLocalSig ==
    (/\ call.op = "signAttestation"
     /\ ~call.result.err
     /\ LocalSigs = <<>>
     /\ Len(call.sigs) < NumOfSigs) =>
        /\ ~call.result.panic
        /\ call.result.tx = call.msgtx

\* C25: createAttestation returns a transaction with the one input of the
\* given unspent (txid and vout), unsigned, and the one output paying the
\* given address; the value is the unspent amount less feePerByte times the
\* serialized size, and the sequence number of the input is 0xFFFFFFFD
C25_CreateAttestation ==
    call.op = "createAttestation" =>
        /\ msgtx.prev = call.txunspent.TxID
        /\ msgtx.vout = call.txunspent.Vout
        /\ msgtx.script = NoScript
        /\ msgtx.addr = call.paytoaddr
        /\ msgtx.value = call.txunspent.Amount - GetFee(call.fees) * SerializeSize(msgtx)
        /\ msgtx.sequence = <<HalfSize - 1, HalfSize - 3>>

\* createAttestation apart from the sequence number: input, output and value
\* are as stated, and the sequence number is below 0xFFFFFFFE, so that the
\* transaction signals replace-by-fee, on either conversion
CreateAttestationInputOutput ==
    call.op = "createAttestation" =>
        /\ msgtx.prev = call.txunspent.TxID
        /\ msgtx.vout = call.txunspent.Vout
        /\ msgtx.script = NoScript
        /\ msgtx.addr = call.paytoaddr
        /\ msgtx.value = call.txunspent.Amount - GetFee(call.fees) * SerializeSize(msgtx)
        /\ msgtx.sequence[1] = HalfSize - 1
        /\ msgtx.sequence[2] < HalfSize - 2
        /\ (call.conv = "low bits" => msgtx.sequence = <<HalfSize - 1, HalfSize - 3>>)

\* C26: bumpAttestationFees empties the scriptSig, advances the fees by one
\* BumpFee and lowers the output value by (new fee - previous fee) times the
\* serialized size of the transaction without its scriptSig, in the
\* arithmetic of int; the outpoint of the input, its sequence number and
\* the output script stay. While the fee stays within its limits the value
\* falls by exactly that product, and not at all once the fee is at the
\* maximum
C26_BumpAttestationFees ==
    call.op = "bumpAttestationFees" =>
        /\ msgtx.script = NoScript
        /\ fees = BumpFee(call.fees)
        /\ msgtx.value =
              WrapInt(call.msgtx.value
                        - WrapInt(WrapInt(fees.currentFee - call.fees.currentFee)
                                    * SerializeSize(msgtx)))
        /\ (/\ call.fees.minFee <= call.fees.currentFee
            /\ fees.currentFee <= fees.maxFee
            /\ call.fees.currentFee <= fees.currentFee
            => /\ msgtx.value = call.msgtx.value
                     - (fees.currentFee - call.fees.currentFee) * SerializeSize(msgtx)
               /\ msgtx.value <= call.msgtx.value
               /\ (call.fees.currentFee = fees.maxFee => msgtx.value = call.msgtx.value))
        /\ msgtx.prev = call.msgtx.prev
        /\ msgtx.vout = call.msgtx.vout
        /\ msgtx.sequence = call.msgtx.sequence
        /\ msgtx.addr = call.msgtx.addr

\* a transaction with its final scriptSig has been bumped from the minimum
\* fee to the next: the scriptSig is gone and the value is lower by the size
C26_Witness ==
    /\ call.op = "bumpAttestationFees"
    /\ Len(call.msgtx.script.sigs) = NumOfSigs
    /\ call.fees.currentFee = CfgMinFee
    /\ fees.currentFee = CfgMinFee + CfgFeeIncrement
    /\ msgtx.script = NoScript
    /\ msgtx.value = call.msgtx.value - CfgFeeIncrement * BaseSize

\* C29: for the zero hash GetScriptFromHash returns the initial redeem script
\* and GetKeyFromHash the initial wallet key; for any other hash
\* GetScriptFromHash returns the redeem script GetNextAttestationAddr derives:
\* M as initially, and each initial pubkey, in the initial order, tweaked by
\* the hash
C29_ScriptAndKeyFromHash ==
    call.op = "GetScriptFromHash" =>
        /\ (call.hash = ZeroHash =>
               /\ call.script = script0
               /\ call.script.keys = pubkeys
               /\ call.key = call.w.WalletPriv)
        /\ (call.hash # ZeroHash =>
               /\ call.script = call.next
               /\ call.script.m = NumOfSigs
               /\ Len(call.script.keys) = Len(pubkeys)
               /\ \A i \in DOMAIN pubkeys :
                     /\ call.script.keys[i] = TweakPubKey(pubkeys[i], call.hash)
                     /\ call.script.keys[i] # pubkeys[i]
               /\ (call.w.WalletPriv # NoKey =>
                     PubKeyOf(call.key) \in Range(call.script.keys)))

\* a signer client has derived the script and its key for a non-zero hash
C29_Witness ==
    /\ call.op = "GetScriptFromHash"
    /\ call.hash = <<2>>
    /\ call.w.WalletPriv = PrivKey(1)
    /\ call.script.keys[1] = <<1, <<2>>>>
    /\ call.key = <<"priv", 1, <<2>>>>

(* ----------------------- the subchain walk on its own ------------------ *)
\* GetRawTransaction failing for no transaction, for one, or for all
RawErrSets == {{}} \cup {{t} : t \in KnownTxs} \cup {KnownTxs}

WalkInit ==
    /\ ServiceInit
    /\ fees = NewAttestFees(FeesConfig, -1)
    /\ main = NoMain
    /\ signer = NoSigner
    /\ call = NoCall

\* the parent node takes a new transaction into its mempool: it spends an
\* output nothing spends yet, on the subchain or off it
NodeReceive ==
    \E t \in KnownTxs :
        /\ Len(mempool) < MaxPool
        /\ Unspent(t)
        /\ mempool' = Append(mempool, <<t, GetNextAttestationAddr(<<1>>),
                                       TxValue(t) - CfgMinFee * BaseSize>>)
        /\ call' = NoCall
        /\ UNCHANGED <<smVars, fees, dbVars, dbClient, blocks, sent, commits,
                       cycle, main, signer>>

\* w.verifyTxOnSubchain(txid); the calls below read the node and change
\* nothing, so each is made in the state the node left
VerifyCall ==
    \E txid \in KnownTxs \cup {<<"unknown">>}, rawErr \in RawErrSets :
        /\ call = NoCall
        /\ call' = [op |-> "verifyTxOnSubchain", txid |-> txid, rawErr |-> rawErr,
                    ok |-> verifyTxOnSubchain(txid, rawErr),
                    fetched |-> FetchesOfWalk(txid, rawErr)]
        /\ UNCHANGED <<serviceVars, main, signer>>

\* w.findLastUnspent()
FindCall ==
    \E listOk \in BOOLEAN, rawErr \in RawErrSets :
        /\ call = NoCall
        /\ call' = [op |-> "findLastUnspent", listOk |-> listOk, rawErr |-> rawErr,
                    result |-> findLastUnspent(listOk, rawErr)]
        /\ UNCHANGED <<serviceVars, main, signer>>

\* w.getUnconfirmedTx()
UnconfCall ==
    \E poolOk \in BOOLEAN, rawErr \in RawErrSets :
        /\ call = NoCall
        /\ call' = [op |-> "getUnconfirmedTx", poolOk |-> poolOk, rawErr |-> rawErr,
                    result |-> getUnconfirmedTx(poolOk, rawErr)]
        /\ UNCHANGED <<serviceVars, main, signer>>

WalkNext ==
    \/ NodeReceive
    \/ Mine /\ call' = NoCall /\ UNCHANGED <<main, signer>>
    \/ VerifyCall
    \/ FindCall
    \/ UnconfCall
WalkSpec == WalkInit /\ [][WalkNext]_vars

\* the transactions from t back along the first inputs, as far as txids go
RECURSIVE PathToRoot(_)
PathToRoot(t) ==
    IF t = txid0 \/ Len(t) # 3 THEN <<t>> ELSE <<t>> \o PathToRoot(t[1])

\* whether the node returns t when the transactions of rawErr fail
Fetches(t, rawErr) == Known(t) /\ t \notin rawErr

\* whether the path from t ends in the genesis transaction and the node
\* returns every transaction before it
WalksBack(t, rawErr) ==
    LET path == PathToRoot(t)
    IN  /\ path[Len(path)] = txid0
        /\ \A i \in 1..(Len(path) - 1) : Fetches(path[i], rawErr)

\* C27: verifyTxOnSubchain returns true exactly when the path of first-input
\* prev-txids from txid ends in the genesis txid and every fetch on the way
\* succeeds; it fetches along that path, never the genesis transaction
\* itself, and stops with false at the first fetch that fails (an RPC error
\* or a transaction the node does not know)
C27_VerifyTxOnSubchain ==
    call.op = "verifyTxOnSubchain" =>
        /\ call.ok <=> WalksBack(call.txid, call.rawErr)
        /\ Len(call.fetched) <= Len(PathToRoot(call.txid))
        /\ \A i \in DOMAIN call.fetched :
              /\ call.fetched[i] = PathToRoot(call.txid)[i]
              /\ call.fetched[i] # txid0
              /\ (i < Len(call.fetched) => Fetches(call.fetched[i], call.rawErr))
        /\ (call.ok => \A i \in DOMAIN call.fetched :
                          Fetches(call.fetched[i], call.rawErr))
        /\ (~call.ok => /\ call.fetched # <<>>
                        /\ ~Fetches(call.fetched[Len(call.fetched)], call.rawErr))

\* a walk from a transaction two steps from genesis has stopped at its second
\* fetch, which failed
C27_Witness ==
    /\ call.op = "verifyTxOnSubchain"
    /\ Len(PathToRoot(call.txid)) = 3
    /\ WalksBack(call.txid, {})
    /\ Len(call.fetched) = 2
    /\ call.rawErr = {call.fetched[2]}
    /\ ~call.ok

\* the first element of the list l that walks back to genesis, 0 if none
FirstWalkingBack(l, rawErr) ==
    LET hits == {i \in DOMAIN l : WalksBack(l[i], rawErr)}
    IN  IF hits = {} THEN 0 ELSE CHOOSE i \in hits : \A j \in hits : i <= j

LeafHashes == {ZeroHash, <<1>>, <<2>>}

\* NewCommitment(commitments): the non-empty lists of hashes
Commitments ==
    UNION {[1..n -> LeafHashes] : n \in 1..MaxLeaves}

AttTxids == {ZeroTxid, txid0, <<"4444">>}

\* what the attestation answers after the call op
Answers(op, txid, commitment, att) ==
    [op |-> op, txid |-> txid, c |-> commitment,
     commitment |-> Commitment(att), hash |-> CommitmentHash(att)]

AttInit ==
    /\ ServiceInit
    /\ fees = NewAttestFees(FeesConfig, -1)
    /\ main = NoMain
    /\ signer = NoSigner
    /\ call = Answers("NewAttestationDefault", ZeroTxid, <<>>, NewAttestationDefault)

\* attestationDefault := NewAttestationDefault()
DefaultCall ==
    /\ attestation' = NewAttestationDefault
    /\ call' = Answers("NewAttestationDefault", ZeroTxid, <<>>, attestation')
    /\ UNCHANGED <<state, errorFrom, running, msgtx, fees, dbVars, dbClient,
                   chainVars, sent, commits, cycle, main, signer>>

\* attestation.SetCommitment(commitment)
SetCommitmentCall ==
    \E commitment \in Commitments :
        /\ attestation' = SetCommitment(attestation, commitment)
        /\ call' = Answers("SetCommitment", attestation.txid, commitment, attestation')
        /\ UNCHANGED <<state, errorFrom, running, msgtx, fees, dbVars, dbClient,
                       chainVars, sent, commits, cycle, main, signer>>

\* attestation := NewAttestation(txid, commitment)
NewAttestationCall ==
    \E txid \in AttTxids, commitment \in Commitments :
        /\ attestation' = NewAttestation(txid, commitment)
        /\ call' = Answers("NewAttestation", txid, commitment, attestation')
        /\ UNCHANGED <<state, errorFrom, running, msgtx, fees, dbVars, dbClient,
                       chainVars, sent, commits, cycle, main, signer>>

AttNext == DefaultCall \/ SetCommitmentCall \/ NewAttestationCall
AttSpec == AttInit /\ [][AttNext]_vars

\* the node over the leaves lo .. lo + size - 1 of c, size a power of two: a
\* half with no leaf repeats the half to its left
RECURSIVE NodeOver(_, _, _)
NodeOver(c, lo, size) ==
    IF size = 1 THEN c[lo]
    ELSE LET half == size \div 2
             left == NodeOver(c, lo, half)
         IN  <<left, IF lo + half > Len(c) THEN left ELSE NodeOver(c, lo + half, half)>>

RECURSIVE PowerOfTwoFrom(_, _)
PowerOfTwoFrom(n, p) == IF p >= n THEN p ELSE PowerOfTwoFrom(n, 2 * p)

\* the merkle root of the commitment c
MerkleRoot(c) == NodeOver(c, 1, PowerOfTwoFrom(Len(c), 1))

\* C30: the default attestation answers Commitment() with the error
\* ErrorCommitmentNotDefined and CommitmentHash() with the zero hash; after
\* SetCommitment(c), and after NewAttestation(txid, c), Commitment() returns c
\* without error and CommitmentHash() returns the merkle root of c
C30_CommitmentOfAttestation ==
    /\ call.op = "NewAttestationDefault" =>
          /\ call.commitment.err = ErrorCommitmentNotDefined
          /\ call.hash = ZeroHash
    /\ call.op \in {"SetCommitment", "NewAttestation"} =>
          /\ call.commitment = [commitment |-> call.c, err |-> NoError]
          /\ call.hash = MerkleRoot(call.c)
    /\ call.commitment = Commitment(attestation)
    /\ call.hash = CommitmentHash(attestation)

\* a commitment of three hashes has been set on the default attestation
C30_Witness ==
    /\ call.op = "SetCommitment"
    /\ attestation = SetCommitment(NewAttestationDefault, call.c)
    /\ Len(call.c) = 3
    /\ call.c[1] # call.c[3]
    /\ call.hash = <<<<call.c[1], call.c[2]>>, <<call.c[3], call.c[3]>>>>

(* ----------------------- the server on its own ------------------------- *)
\* the rows getClientCommitments returns: one per client that committed,
\* ordered by ascending position
RECURSIVE ClientRowsFrom(_)
ClientRowsFrom(pos) ==
    IF pos > MaxClientPos THEN {<<>>}
    ELSE LET rest == ClientRowsFrom(pos + 1)
         IN  rest \cup {<<[ClientPosition |-> pos, Commitment |-> h]>> \o r :
                           h \in {<<1>>, <<2>>}, r \in rest}
ClientRows == ClientRowsFrom(0)

\* the attestations handed to UpdateLatestAttestation
ServerAttestations ==
    {[txid |-> t, commitment |-> c, confirmed |-> b,
      info |-> IF b THEN [Txid |-> t, Blockhash |-> 1, Time |-> 1, Amount |-> 1]
               ELSE NoInfo] :
        t \in {<<"a">>, <<"b">>}, c \in {<<>>, <<<<1>>>>, <<<<1>>, <<2>>>>},
        b \in BOOLEAN}

\* the collections of the store the server writes
Store ==
    [atts |-> dbAttestations, comms |-> dbCommitments, proofs |-> dbProofs,
     info |-> dbInfo]

ServerInit ==
    /\ state = AStateInit
    /\ errorFrom = NoError
    /\ running = TRUE
    /\ attestation = NewAttestationDefault
    /\ msgtx = NoTx
    /\ fees = NewAttestFees(FeesConfig, -1)
    /\ dbAttestations = <<>>
    /\ dbCommitments = {}
    /\ dbProofs = {}
    /\ dbInfo = {}
    /\ dbClient \in ClientRows
    /\ mempool = <<>>
    /\ blocks = <<>>
    /\ sent = {}
    /\ commits = 0
    /\ cycle = 0
    /\ main = NoMain
    /\ signer = NoSigner
    /\ call = [op |-> "NewServer", n |-> 0]

\* s.UpdateLatestAttestation(attestation), the failAt-th call of the Db
\* failing (0: none). It does not touch the client commitments, so it is
\* followed on the store that has none
UpdateCall ==
    \E att \in ServerAttestations, failAt \in 0..4 :
        LET db == UpdateLatestAttestation(att, failAt)
            calls == UpdateLatestAttestationCalls(att, failAt)
        IN  /\ call.n < MaxUpdates
            /\ dbClient = <<>>
            /\ dbAttestations' = db.atts
            /\ dbCommitments' = db.comms
            /\ dbProofs' = db.proofs
            /\ dbInfo' = db.info
            /\ call' = [op |-> "UpdateLatestAttestation", att |-> att,
                        failAt |-> failAt, before |-> Store,
                        writes |-> calls.writes, error |-> calls.error,
                        err |-> db.err, n |-> call.n + 1]
            /\ UNCHANGED <<smVars, fees, dbClient, chainVars, sent, commits,
                           cycle, main, signer>>

\* s.GetClientCommitment()
GetClientCall ==
    /\ call.op # "GetClientCommitment"
    /\ call' = [op |-> "GetClientCommitment", result |-> GetClientCommitment,
                n |-> call.n]
    /\ UNCHANGED <<serviceVars, main, signer>>

ServerNext == UpdateCall \/ GetClientCall
ServerSpec == ServerInit /\ [][ServerNext]_vars

WriteOrder ==
    <<"saveAttestation", "saveMerkleCommitments", "saveMerkleProofs",
      "saveAttestationInfo">>

\* the k-th write of WriteOrder was made by the recorded call and succeeded
Written(k) == k <= Len(call.writes) /\ call.failAt # k

\* C31: UpdateLatestAttestation writes in the order attestation, merkle
\* commitments, merkle proofs, attestation info; the info write is made if
\* and only if the attestation is confirmed and the three writes before it
\* succeeded; the first write that fails is the last one made, its error is
\* returned, and the store holds exactly the writes that succeeded
C31_WriteOrder ==
    call.op = "UpdateLatestAttestation" =>
        /\ call.writes # <<>>
        /\ call.writes = SubSeq(WriteOrder, 1, Len(call.writes))
        /\ (Len(call.writes) = 4) <=>
              (call.att.confirmed /\ Written(1) /\ Written(2) /\ Written(3))
        /\ \A k \in 2..Len(call.writes) : Written(k - 1)
        /\ (call.failAt \in DOMAIN call.writes =>
              /\ Len(call.writes) = call.failAt
              /\ call.error = DbError
              /\ call.err)
        /\ call.err <=> (call.error # NoError)
        /\ (Written(3) /\ (call.att.confirmed => Written(4)) => ~call.err)
        /\ dbAttestations = IF Written(1)
                            THEN saveAttestation(call.before.atts, call.att)
                            ELSE call.before.atts
        /\ dbCommitments = call.before.comms \cup
              (IF Written(2) THEN GetMerkleCommitments(call.att.commitment) ELSE {})
        /\ dbProofs = call.before.proofs \cup
              (IF Written(3) THEN GetMerkleProofs(call.att.commitment) ELSE {})
        /\ dbInfo = call.before.info \cup
              (IF Written(4) THEN {call.att.info} ELSE {})

\* the write of the proofs of a confirmed attestation has failed: attestation
\* and commitments are stored, proofs and info are not
C31_Witness ==
    /\ call.op = "UpdateLatestAttestation"
    /\ call.att.confirmed
    /\ call.failAt = 3
    /\ call.writes = SubSeq(WriteOrder, 1, 3)
    /\ dbCommitments # call.before.comms
    /\ dbProofs = call.before.proofs
    /\ call.att.info \notin dbInfo
    /\ call.err

\* C36 as stated: called with an attestation without commitment (and no
\* failing write), UpdateLatestAttestation returns the commitment-not-defined
\* error and leaves the store as it was
C36_UndefinedCommitmentLeavesStore ==
    (/\ call.op = "UpdateLatestAttestation"
     /\ call.att.commitment = <<>>
     /\ call.failAt = 0) =>
        /\ call.error = ErrorCommitmentNotDefined
        /\ Store = call.before

\* the position of the last row of the store's answer, -1 for none
MaxStoredPos ==
    IF dbClient = <<>> THEN -1
    ELSE CHOOSE p \in {dbClient[i].ClientPosition : i \in DOMAIN dbClient} :
            \A i \in DOMAIN dbClient : dbClient[i].ClientPosition <= p

\* C32: from rows ordered by ascending position GetClientCommitment builds
\* the hash list of length maximum position + 1 with each client's hash at
\* its position and the zero hash where no client committed; with no rows
\* it returns ErrorCommitmentListEmpty
C32_GetClientCommitment ==
    call.op = "GetClientCommitment" =>
        IF dbClient = <<>>
        THEN call.result.error = ErrorCommitmentListEmpty /\ call.result.err
        ELSE /\ call.result.error = NoError /\ ~call.result.err
             /\ Len(call.result.commitment) = MaxStoredPos + 1
             /\ \A i \in DOMAIN dbClient :
                   call.result.commitment[dbClient[i].ClientPosition + 1]
                       = dbClient[i].Commitment
             /\ \A p \in 0..MaxStoredPos :
                   (\A i \in DOMAIN dbClient : dbClient[i].ClientPosition # p)
                       => call.result.commitment[p + 1] = ZeroHash

\* the clients at positions 0 and 2 have committed, the one at 1 has not
C32_Witness ==
    /\ call.op = "GetClientCommitment"
    /\ Len(dbClient) = 2
    /\ dbClient[1].ClientPosition = 0
    /\ dbClient[2].ClientPosition = 2
    /\ call.result.commitment = <<dbClient[1].Commitment, ZeroHash, dbClient[2].Commitment>>

(* ------------------------ the confirmation tool ------------------------ *)
\* main of the tool: the fetcher started on the genesis transaction, the
\* loop ahead of its first receive
ToolInit ==
    /\ ServiceInit
    /\ fees = NewAttestFees(FeesConfig, -1)
    /\ main = [pcMain |-> "range", emitted |-> <<>>, read |-> 0,
               verified |-> <<>>, failedAt |-> 0]
    /\ call = NoCall
    /\ signer = NoSigner

\* the chain fetcher finds the confirmed transaction that spends the last
\* one it emitted and sends it on the channel of chain.Updates()
Fetch ==
    LET last == IF main.emitted = <<>> THEN txid0
                ELSE main.emitted[Len(main.emitted)]
    IN  /\ main.pcMain # "exited"
        /\ \E i \in DOMAIN blocks :
              /\ TxPrev(blocks[i]) = last
              /\ main' = [main EXCEPT !.emitted = Append(@, blocks[i])]
        /\ UNCHANGED <<serviceVars, call, signer>>

\* for transaction := range chain.Updates()
ToolReceive ==
    /\ main.pcMain = "range"
    /\ main.read < Len(main.emitted)
    /\ main' = [main EXCEPT !.pcMain = "verify", !.read = @ + 1]
    /\ UNCHANGED <<serviceVars, call, signer>>

\* the loop going on to the next transaction after a failed verification
ToolVerify_GoesOn ==
    /\ main.pcMain = "verify"
    /\ \E ok \in BOOLEAN :
          main' = IF ok
                  THEN [main EXCEPT !.pcMain = "range",
                                    !.verified = Append(@, main.emitted[main.read])]
                  ELSE [main EXCEPT !.pcMain = "range",
                                    !.failedAt = IF @ = 0 THEN main.read ELSE @]
    /\ UNCHANGED <<serviceVars, call, signer>>

\* info, err := verifier.Verify(transaction): log.Fatal(err) ends the
\* process, else printAttestation reports the transaction as verified
ToolVerify ==
    /\ main.pcMain = "verify"
    /\ \E ok \in BOOLEAN :
          main' = IF ok
                  THEN [main EXCEPT !.pcMain = "range",
                                    !.verified = Append(@, main.emitted[main.read])]
                  ELSE [main EXCEPT !.pcMain = "exited", !.failedAt = main.read]
    /\ UNCHANGED <<serviceVars, call, signer>>

ToolNext ==
    \/ NodeReceive
    \/ Mine /\ UNCHANGED <<main, call, signer>>
    \/ Fetch
    \/ ToolReceive
    \/ ToolVerify
ToolSpec == ToolInit /\ [][ToolNext]_vars

\* the confirmed transactions on the spend path from genesis, in spend order
RECURSIVE SpendsFrom(_)
SpendsFrom(t) ==
    LET next == {i \in DOMAIN blocks : blocks[i][1] = t}
    IN  IF next = {} THEN <<>>
        ELSE <<blocks[CHOOSE i \in next : TRUE]>> \o SpendsFrom(blocks[CHOOSE i \in next : TRUE])

\* C33: what the fetcher has emitted is, without repetition and in spend
\* order, a prefix of the confirmed spending transactions from genesis; the
\* tool reports as verified the transactions it received, in that order, up
\* to the first one whose verification fails, and none after it
C33_FetchAndVerifyInOrder ==
    /\ main.emitted = SubSeq(SpendsFrom(txid0), 1, Len(main.emitted))
    /\ \A i, j \in DOMAIN main.emitted : main.emitted[i] = main.emitted[j] => i = j
    /\ main.read <= Len(main.emitted)
    /\ main.failedAt = 0 =>
          /\ main.pcMain # "exited"
          /\ main.verified = SubSeq(main.emitted, 1,
                                    IF main.pcMain = "verify" THEN main.read - 1
                                    ELSE main.read)
    /\ main.failedAt # 0 =>
          /\ main.pcMain = "exited"
          /\ main.read = main.failedAt
          /\ main.verified = SubSeq(main.emitted, 1, main.failedAt - 1)

\* the first transaction was verified, the second failed, and the fetcher
\* had emitted both
C33_Witness ==
    /\ main.failedAt = 2
    /\ main.verified = <<main.emitted[1]>>
    /\ main.emitted = SpendsFrom(txid0)
    /\ main.pcMain = "exited"


\* the output value is the amount of the spent output minus the current fee
\* per byte times the size of the transaction without scriptSig, in the int
\* arithmetic of the code
OutputValueTracksFee ==
    msgtx # NoTx =>
        msgtx.value = WrapInt(TxValue(msgtx.prev) -
            WrapInt(fees.currentFee * SerializeSize([msgtx EXCEPT !.script = NoScript])))

\* a bump at maxFee whose addition does not overflow leaves the value alone
BumpAtMaxWithoutOverflow ==
    (/\ call.op = "bumpAttestationFees"
     /\ call.fees.currentFee = call.fees.maxFee
     /\ call.fees.currentFee + call.fees.feeIncrement <= MaxInt) =>
        msgtx.value = call.msgtx.value /\ fees = call.fees

\* C34 as stated: after createAttestation and any number of
\* bumpAttestationFees the output value is the amount of the spent output
\* minus the current fee per byte times the size of the transaction without
\* scriptSig, and a bump made with the fee at maxFee leaves the output value
\* unchanged
C34_OutputValueTracksFee ==
    /\ OutputValueTracksFee
    /\ (call.op = "bumpAttestationFees" /\ call.fees.currentFee = call.fees.maxFee)
          => msgtx.value = call.msgtx.value


\* C35 as stated: once the service goroutine has finished on its own, with
\* no interrupt received and the context not cancelled, wg.Wait returns and
\* main ends without an interrupt (a behaviour in which an interrupt arrives
\* later is not held against the statement)
C35_ServiceExitEndsMain ==
    (main.pcService = "done" /\ main.sigints = 0 /\ ~main.ctxDone)
        ~> (main.pcMain = "done" \/ main.sigints > 0)

(* ------------------ UnserializeBytes on any byte string ---------------- *)
\* the byte strings a subscriber can receive: any bytes, framed or not
ReceivedBytes == {0, 1, 2, 255}
ByteStrings == UNION {[1..n -> ReceivedBytes] : n \in 0..MaxBytes}

ParseInit ==
    /\ ServiceInit
    /\ fees = NewAttestFees(FeesConfig, -1)
    /\ call \in {[op |-> "data", data |-> data] : data \in ByteStrings}
    /\ main = NoMain
    /\ signer = NoSigner

\* out := UnserializeBytes(data)
UnserializeCall ==
    /\ call.op = "data"
    /\ call' = [op |-> "UnserializeBytes", data |-> call.data,
                out |-> UnserializeBytes(call.data)]
    /\ UNCHANGED <<serviceVars, main, signer>>

ParseSpec == ParseInit /\ [][UnserializeCall]_vars

\* C37: UnserializeBytes returns, for every byte string, the chunks of its
\* longest well-formed prefix: the chunks lie in the string one after the
\* other, each behind the length byte that states its length, none reaching
\* past the end; what is left over, if anything, starts with a length byte
\* that announces more bytes than remain, and is dropped without a partial
\* chunk
C37_LongestWellFormedPrefix ==
    call.op = "UnserializeBytes" =>
        LET used == FrameOffset(call.out, Len(call.out) + 1) - 1
        IN  /\ used <= Len(call.data)
            /\ \A i \in DOMAIN call.out :
                  /\ call.data[FrameOffset(call.out, i)] = Len(call.out[i])
                  /\ call.out[i] = SubSeq(call.data, FrameOffset(call.out, i) + 1,
                                          FrameOffset(call.out, i) + Len(call.out[i]))
            /\ used < Len(call.data) =>
                  call.data[used + 1] > Len(call.data) - used - 1

\* a string of one whole chunk and a chunk cut short: the first is returned,
\* the second dropped
C37_Witness ==
    /\ call.op = "UnserializeBytes"
    /\ Len(call.data) = 4
    /\ call.data[1] = 1
    /\ call.data[3] = 2
    /\ call.out = <<<<call.data[2]>>>>

=============================================================================
